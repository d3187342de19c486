------------------------------- MODULE DavFs -------------------------------
(***************************************************************************)
(* The WebDAV handlers of davfs.rs: PUT, GET and DELETE over the directory *)
(* tree, the router's table of routes and the shards in the vault, which   *)
(* they reach by one await after the other while other handlers run.       *)
(*                                                                         *)
(* A route matters here only by being there: push_shard_to_peer does       *)
(* nothing and fetch_shard_from_peer always fails, so every shard that can *)
(* be read is in the local vault.  The steps inside the vault and inside   *)
(* the directory's flush are those of Vault and EncryptedDirectory.        *)
(***************************************************************************)
EXTENDS DirectoryTree, FiniteSets

CONSTANTS
    Clients,          \* concurrent request handlers
    Paths,            \* paths that requests name, see DirectoryTree
    Uploads,          \* the PUTs there are
    Blocks,           \* Blocks[u]: the number of blocks of the body of u
    DataShards,       \* rs_data_shards
    TotalShards,      \* data and parity shards
    MaxFaults,        \* bound on the number of I/O errors
    MaxMishaps        \* bound on the number of groups that grow too old, of
                      \* clients that hang up and of restarts, together

ASSUME UploadAssumption ==
    /\ Uploads # {}
    /\ Blocks \in [Uploads -> Nat]
    /\ \A p \in Paths : p \in Seq(ToSet(p)) /\ p # <<>>

ASSUME CodeAssumption ==
    /\ DataShards \in Nat \ {0}
    /\ TotalShards \in Nat
    /\ DataShards < TotalShards

VARIABLES
    tree,      \* EncryptedDirectory.tree
    routes,    \* the groups that WanRouter.routes has an entry for
    shards,    \* shards[g]: the shards of g that the vault has in full,
    cut,       \* cut[g]: those of which a failed write left a part or an
               \* empty file,
    zeroed,    \* zeroed[g]: and those that a failed wipe overwrote
    pc,        \* where each handler is
    path,      \* the path its request names
    upload,    \* the upload it stores, reads or deletes
    block,     \* the block it is at
    opts,      \* shard_opts: what each shard read so far is
    body,      \* file_data: the pieces of the answer so far
    home,      \* home[u]: the path u has been PUT to, <<>> before
    doomed,    \* uploads that a DELETE has resolved or that have been purged
    deleted,   \* <<path, upload>> of the DELETEs that ran to their end
    faults,    \* I/O errors so far
    mishaps    \* purges, hang-ups and restarts so far

vaultVars == <<shards, cut, zeroed>>
handlerVars == <<pc, path, upload, block, opts, body>>
historyVars == <<home, doomed, deleted>>
bounds == <<faults, mishaps>>
vars == <<tree, routes, vaultVars, handlerVars, historyVars, bounds>>

AnyUpload == CHOOSE u \in Uploads : TRUE

\* As the code would be if the hash left out the encrypted block.
GroupOfIndexOnly(u, b) == <<AnyUpload, b>>

(* Every block is encrypted under a key of its own, so the hash of its     *)
(* index and its ciphertext is a group id no other block has.              *)
GroupOf(u, b) == <<u, b>>

GroupsOf(u) == {GroupOf(u, b) : b \in 1 .. Blocks[u]}

Groups == UNION {GroupsOf(u) : u \in Uploads}

Shard == 0 .. TotalShards - 1

(* What read_shard finds where a shard should be.                          *)
Content == {"none", "cut", "zero", "whole"}

(* What an answer has where shard i of block b of upload u should be: that *)
(* shard, of the ciphertext or the parity; or bytes that are not it.       *)
Piece(u, b, i, form) == [upload |-> u, block |-> b, index |-> i, form |-> form]

EntryOf(p, u) == [filename |-> Last(p), upload |-> u]

Init ==
    /\ tree = NewTree
    /\ routes = {}
    /\ shards = [g \in Groups |-> {}]
    /\ cut = [g \in Groups |-> {}]
    /\ zeroed = [g \in Groups |-> {}]
    /\ pc = [c \in Clients |-> "idle"]
    /\ path = [c \in Clients |-> <<>>]
    /\ upload = [c \in Clients |-> AnyUpload]
    /\ block = [c \in Clients |-> 0]
    /\ opts = [c \in Clients |-> <<>>]
    /\ body = [c \in Clients |-> <<>>]
    /\ home = [u \in Uploads |-> <<>>]
    /\ doomed = {}
    /\ deleted = {}
    /\ faults = 0
    /\ mishaps = 0

----------------------------------------------------------------------------
(* Moves of a handler.                                                     *)

GoTo(c, where) ==
    /\ pc' = [pc EXCEPT ![c] = where]
    /\ UNCHANGED <<path, upload, block, opts, body>>

(* A request that has resolved or chosen its upload starts its loop over   *)
(* the blocks, or passes it by when the body is empty.                     *)
Start(c, p, u, loop, after) ==
    /\ pc[c] = "idle"
    /\ pc' = [pc EXCEPT ![c] = IF Blocks[u] > 0 THEN loop ELSE after]
    /\ path' = [path EXCEPT ![c] = p]
    /\ upload' = [upload EXCEPT ![c] = u]
    /\ block' = [block EXCEPT ![c] = 1]
    /\ UNCHANGED <<opts, body>>

NextBlock(c, loop, after) ==
    /\ pc' = [pc EXCEPT ![c] =
                 IF block[c] < Blocks[upload[c]] THEN loop ELSE after]
    /\ block' = [block EXCEPT ![c] = @ + 1]
    /\ opts' = [opts EXCEPT ![c] = <<>>]
    /\ UNCHANGED <<path, upload>>

(* The answer is told by where it is given: 200 in SendBody, 500 in the    *)
(* other steps of a GET, 201, 204 or 500 at the end of a PUT and a DELETE. *)
Answer(c) ==
    /\ pc' = [pc EXCEPT ![c] = "idle"]
    /\ path' = [path EXCEPT ![c] = <<>>]
    /\ upload' = [upload EXCEPT ![c] = AnyUpload]
    /\ block' = [block EXCEPT ![c] = 0]
    /\ opts' = [opts EXCEPT ![c] = <<>>]
    /\ body' = [body EXCEPT ![c] = <<>>]

Group(c) == GroupOf(upload[c], block[c])

Fault == faults < MaxFaults /\ faults' = faults + 1
NoFault == UNCHANGED faults

Mishap == mishaps < MaxMishaps /\ mishaps' = mishaps + 1

----------------------------------------------------------------------------
(* PUT: dav_put and store_file.                                            *)

BeginPut(c, p, u) ==
    /\ home[u] = <<>>
    /\ Start(c, p, u, "route", "add")
    /\ home' = [home EXCEPT ![u] = p]
    /\ UNCHANGED <<tree, routes, vaultVars, doomed, deleted, bounds>>

ComputeRoute(c) ==
    /\ pc[c] = "route"
    /\ routes' = routes \cup {Group(c)}
    /\ GoTo(c, "store")
    /\ UNCHANGED <<tree, vaultVars, historyVars, bounds>>

\* As the code would be if its loop over the shards ran once too often.
LastShardOffByOne(c) == Len(opts[c]) = TotalShards

LastShard(c) == Len(opts[c]) + 1 = TotalShards

(* store_shard of the next shard of the block.  An error before the file   *)
(* is opened leaves none, one in its fs::write a part of the shard, one    *)
(* after that the shard; store_file only warns of it.  `opts` counts the   *)
(* shards done; none is stored twice.                                      *)
StoreShard(c) ==
    /\ pc[c] = "store"
    /\ \E left \in Content \ {"zero"} :
          /\ (left = "whole" /\ NoFault) \/ Fault
          /\ shards' = IF left = "whole"
                       THEN [shards EXCEPT ![Group(c)] = @ \cup {Len(opts[c])}]
                       ELSE shards
          /\ cut' = IF left = "cut"
                    THEN [cut EXCEPT ![Group(c)] = @ \cup {Len(opts[c])}]
                    ELSE cut
    /\ IF LastShard(c)
       THEN NextBlock(c, "route", "add") /\ UNCHANGED body
       ELSE /\ opts' = [opts EXCEPT ![c] = Append(@, "whole")]
            /\ UNCHANGED <<pc, path, upload, block, body>>
    /\ UNCHANGED <<tree, routes, zeroed, historyVars, mishaps>>

(* add_file, whose flush can fail after it has changed the tree.  When it  *)
(* fails, routes and shards stay.                                          *)
AddToTree(c) ==
    LET parent == Front(path[c])
        entry == EntryOf(path[c], upload[c])
    IN  /\ pc[c] = "add"
        /\ IF AddFileFails(tree, parent, entry)
           THEN UNCHANGED tree /\ NoFault
           ELSE tree' = AddFile(tree, parent, entry) /\ (NoFault \/ Fault)
        /\ Answer(c)
        /\ UNCHANGED <<routes, vaultVars, historyVars, mishaps>>

----------------------------------------------------------------------------
(* GET: dav_get (and wan_file_handler) and reconstruct_file.               *)

BeginGet(c, p) ==
    /\ pc[c] = "idle"
    /\ \E f \in ResolvePath(tree, p) : Start(c, p, f.upload, "fetch", "send")
    /\ UNCHANGED <<tree, routes, vaultVars, historyVars, bounds>>

(* "No route for group" ends the request.                                  *)
GetRoute(c) ==
    /\ pc[c] = "fetch"
    /\ IF Group(c) \in routes THEN GoTo(c, "read") ELSE Answer(c)
    /\ UNCHANGED <<tree, routes, vaultVars, historyVars, bounds>>

Found(g, i) ==
    IF i \in shards[g] THEN "whole"
    ELSE IF i \in cut[g] THEN "cut"
    ELSE IF i \in zeroed[g] THEN "zero"
    ELSE "none"

(* read_shard, which returns what the file holds; a shard without a file   *)
(* or that does not read cannot be fetched from a peer either.             *)
ReadShard(c) ==
    /\ pc[c] = "read"
    /\ \E what \in Content :
          /\ \/ NoFault /\ what = Found(Group(c), Len(opts[c]))
             \/ Fault /\ what = "none"
          /\ opts' = [opts EXCEPT ![c] = Append(@, what)]
    /\ pc' = [pc EXCEPT ![c] = IF LastShard(c) THEN "decode" ELSE "read"]
    /\ UNCHANGED <<tree, routes, vaultVars, path, upload, block, body,
                   historyVars, mishaps>>

Missing(c) == {i \in DOMAIN opts[c] : opts[c][i] = "none"}

Got(c, what) == \E i \in DOMAIN opts[c] : opts[c][i] = what

(* rs_reconstruct_n looks at how many shards there are and at their        *)
(* lengths, not at what they hold: one that was cut has not the length of  *)
(* the others.                                                             *)
Decodable(c) ==
    /\ TotalShards - Cardinality(Missing(c)) >= DataShards
    /\ Got(c, "cut") => ~Got(c, "whole") /\ ~Got(c, "zero")

(* The shard it got, and the others as they follow from what it got.       *)
Form(c, i) ==
    IF opts[c][i] = "whole" \/ ~(Got(c, "cut") \/ Got(c, "zero"))
    THEN "sealed" ELSE "spoiled"

\* As the code would be if it did not reconstruct the missing shards.
RebuiltWithoutMissing(c) ==
    LET all == [i \in 1 .. TotalShards |->
                   Piece(upload[c], block[c], i - 1, Form(c, i))]
    IN  SelectSeq(all, LAMBDA piece : piece.index + 1 \notin Missing(c))

(* The shards after rs_reconstruct_n, which fills in every missing one.    *)
Rebuilt(c) ==
    [i \in 1 .. TotalShards |-> Piece(upload[c], block[c], i - 1, Form(c, i))]

(* All shards of the block, the parity too, go to the answer; or it is an  *)
(* error.  Shards that were cut have one length or not, and may be empty.  *)
Reconstruct(c) ==
    /\ pc[c] = "decode"
    /\ \/ /\ Decodable(c)
          /\ body' = [body EXCEPT ![c] = @ \o Rebuilt(c)]
          /\ NextBlock(c, "fetch", "send")
       \/ /\ Decodable(c) => Got(c, "cut")
          /\ Answer(c)
    /\ UNCHANGED <<tree, routes, vaultVars, historyVars, bounds>>

SendBody(c) ==
    /\ pc[c] = "send"
    /\ Answer(c)
    /\ UNCHANGED <<tree, routes, vaultVars, historyVars, bounds>>

----------------------------------------------------------------------------
(* DELETE: dav_delete.                                                     *)

BeginDelete(c, p) ==
    /\ pc[c] = "idle"
    /\ \E f \in ResolvePath(tree, p) :
          /\ Start(c, p, f.upload, "wipe", "unlist")
          /\ doomed' = doomed \cup {f.upload}
    /\ UNCHANGED <<tree, routes, vaultVars, home, deleted, bounds>>

Clear(g) ==
    /\ shards' = [shards EXCEPT ![g] = {}]
    /\ cut' = [cut EXCEPT ![g] = {}]
    /\ zeroed' = [zeroed EXCEPT ![g] = {}]

(* An error of a wipe leaves what it has not yet removed, of which it may  *)
(* have overwritten one file with zeros or not to its end.                 *)
WipeFails(g) ==
    \E full \in SUBSET shards[g], parts \in SUBSET cut[g],
       zeros \in SUBSET zeroed[g] :
          \E one \in SUBSET ((shards[g] \cup zeroed[g]) \ (full \cup zeros)) :
             /\ \A i, j \in one : i = j
             /\ shards' = [shards EXCEPT ![g] = full]
             /\ \/ /\ cut' = [cut EXCEPT ![g] = parts \cup one]
                   /\ zeroed' = [zeroed EXCEPT ![g] = zeros]
                \/ /\ cut' = [cut EXCEPT ![g] = parts]
                   /\ zeroed' = [zeroed EXCEPT ![g] = zeros \cup one]

(* secure_wipe_group; of an error, the handler only warns.                 *)
WipeGroup(c) ==
    /\ pc[c] = "wipe"
    /\ \/ NoFault /\ Clear(Group(c))
       \/ Fault /\ WipeFails(Group(c))
    /\ GoTo(c, "unroute")
    /\ UNCHANGED <<tree, routes, historyVars, mishaps>>

\* As the code would be if a wipe that failed skipped the route.
RemoveRouteIfWiped(c) ==
    /\ pc[c] = "unroute"
    /\ routes' = IF shards[Group(c)] = {} THEN routes \ {Group(c)} ELSE routes
    /\ NextBlock(c, "wipe", "unlist")
    /\ UNCHANGED <<tree, vaultVars, body, historyVars, bounds>>

RemoveRoute(c) ==
    /\ pc[c] = "unroute"
    /\ routes' = routes \ {Group(c)}
    /\ NextBlock(c, "wipe", "unlist")
    /\ UNCHANGED <<tree, vaultVars, body, historyVars, bounds>>

(* remove_file looks the path up again, by its own rules.                  *)
Unlist(c) ==
    /\ pc[c] = "unlist"
    /\ IF RemoveFileFails(tree, path[c])
       THEN UNCHANGED tree /\ NoFault
       ELSE tree' = RemoveFile(tree, path[c]) /\ (NoFault \/ Fault)
    /\ Answer(c)
    /\ deleted' = deleted \cup {<<path[c], upload[c]>>}
    /\ UNCHANGED <<routes, vaultVars, home, doomed, mishaps>>

(* The path of a request does not resolve: 404.                            *)
NotFound(c, p) ==
    /\ pc[c] = "idle"
    /\ ResolvePath(tree, p) = {}
    /\ UNCHANGED vars

----------------------------------------------------------------------------
(* The client hangs up, and its handler ends where it is.                  *)
Disconnect(c) ==
    /\ Mishap
    /\ pc[c] # "idle"
    /\ Answer(c)
    /\ UNCHANGED <<tree, routes, vaultVars, historyVars, faults>>

(* garbage_collect deletes a group whose shards were stored too long ago,  *)
(* also when its upload is still storing the others; the directory and the *)
(* routes know nothing of it.                                              *)
Purge(u, g) ==
    /\ Mishap
    /\ g \in GroupsOf(u)
    /\ shards[g] # {}
    /\ Clear(g)
    /\ doomed' = doomed \cup {u}
    /\ UNCHANGED <<tree, routes, handlerVars, home, deleted, faults>>

(* The table of routes is in memory only, and the directory does not open  *)
(* under the new identity (EncryptedDirectory).                            *)
Restart ==
    /\ Mishap
    /\ tree' = NewTree
    /\ routes' = {}
    /\ pc' = [c \in Clients |-> "idle"]
    /\ path' = [c \in Clients |-> <<>>]
    /\ upload' = [c \in Clients |-> AnyUpload]
    /\ block' = [c \in Clients |-> 0]
    /\ opts' = [c \in Clients |-> <<>>]
    /\ body' = [c \in Clients |-> <<>>]
    /\ UNCHANGED <<vaultVars, historyVars, faults>>

Put(c) == ComputeRoute(c) \/ StoreShard(c) \/ AddToTree(c)

Get(c) == GetRoute(c) \/ ReadShard(c) \/ Reconstruct(c) \/ SendBody(c)

Delete(c) == WipeGroup(c) \/ RemoveRoute(c) \/ Unlist(c)

Next ==
    \/ \E c \in Clients, p \in Paths :
          \/ \E u \in Uploads : BeginPut(c, p, u)
          \/ BeginGet(c, p)
          \/ BeginDelete(c, p)
          \/ NotFound(c, p)
    \/ \E c \in Clients : Put(c) \/ Get(c) \/ Delete(c) \/ Disconnect(c)
    \/ \E u \in Uploads, g \in Groups : Purge(u, g)
    \/ Restart

Spec == Init /\ [][Next]_vars

----------------------------------------------------------------------------
HandlerPc == {"idle", "route", "store", "add", "fetch", "read", "decode",
              "send", "wipe", "unroute", "unlist"}

Components == (UNION {ToSet(p) : p \in Paths}) \cup ToSet(RootDir)
Entries == {EntryOf(p, u) : p \in Paths, u \in Uploads}
Pieces == [upload : Uploads, block : Nat, index : Shard,
           form : {"plain", "sealed", "spoiled"}]

(* Type invariant of the handlers and of the state they share.             *)
TypeOK ==
    /\ tree \in TreesOver(Components, Entries)
    /\ routes \subseteq Groups
    /\ shards \in [Groups -> SUBSET Shard]
    /\ cut \in [Groups -> SUBSET Shard]
    /\ zeroed \in [Groups -> SUBSET Shard]
    /\ pc \in [Clients -> HandlerPc]
    /\ path \in [Clients -> Paths \cup {<<>>}]
    /\ upload \in [Clients -> Uploads]
    /\ block \in [Clients -> Nat]
    /\ opts \in [Clients -> Seq(Content)]
    /\ body \in [Clients -> Seq(Pieces)]
    /\ home \in [Uploads -> Paths \cup {<<>>}]
    /\ doomed \subseteq Uploads
    /\ deleted \subseteq Paths \X Uploads
    /\ faults \in Nat /\ mishaps \in Nat

Listed(u) == \E f \in ToSet(AllFiles(tree)) : f.upload = u

(* The step answers the request of c.                                      *)
Answered(c) ==
    /\ pc[c] # "idle" /\ pc'[c] = "idle"
    /\ mishaps' = mishaps

(* What the PUT has made of its body and stored, in order: the ciphertext  *)
(* of every block and its parity.                                          *)
StoredBody(u) ==
    FlattenSeq([b \in 1 .. Blocks[u] |->
                   [i \in 1 .. TotalShards |-> Piece(u, b, i - 1, "sealed")]])

(* A GET of a file that nobody deletes and no collection takes sends what  *)
(* its PUT has stored, all of it, in order and nothing else, whatever is   *)
(* stored or deleted besides it, while not every shard can have been hit   *)
(* by an error.  It fails only when a block misses more shards than it has *)
(* parity, each by an error, or when a failed write has left a part of one *)
(* behind: against that the parity is of no use.  What was stored is not   *)
(* what the client has PUT: it is not decrypted, and the parity is sent    *)
(* too.                                                                    *)
ReadsAreAsStored ==
    [][\A c \in Clients :
          Answered(c) /\ upload[c] \notin doomed
            => /\ pc[c] \in {"fetch", "decode"} =>
                     \/ faults > TotalShards - DataShards
                     \/ cut[Group(c)] # {}
               /\ pc[c] = "send" /\ faults < TotalShards =>
                     body[c] = StoredBody(upload[c])]_vars

(* A file in the directory has the route of every group of it, and all its *)
(* shards in full but one for each I/O error, until a DELETE resolves it   *)
(* or a collection takes a group of it: wiping one file, giving up a PUT   *)
(* or failing to list it takes nothing from another one.                   *)
ListedReadable ==
    \A u \in Uploads \ doomed : Listed(u) =>
        \A g \in GroupsOf(u) :
            /\ g \in routes
            /\ Cardinality(shards[g]) >= TotalShards - faults

(* After a DELETE has run to its end no group of the file it resolved has  *)
(* a route again or, unless a wipe failed, a shard; below the root the     *)
(* path does not lead to that file again, whatever raced with it.          *)
DeletedStaysGone ==
    \A d \in deleted :
        /\ GroupsOf(d[2]) \cap routes = {}
        /\ faults = 0 => \A g \in GroupsOf(d[2]) : shards[g] = {}
        /\ Len(d[1]) = 2 => EntryOf(d[1], d[2]) \notin ResolvePath(tree, d[1])

----------------------------------------------------------------------------
(* What a client has PUT as upload u.                                      *)
PlainBody(u) ==
    FlattenSeq([b \in 1 .. Blocks[u] |->
                   [i \in 1 .. DataShards |->
                       Piece(u, b, i - 1, "plain")]])

(* "All paths are transparently decrypted": a GET is answered with the     *)
(* body of the PUT.                                                        *)
GetReturnsUpload ==
    [][\A c \in Clients :
          pc[c] = "send" /\ Answered(c)
              => body[c] = PlainBody(upload[c])]_vars

(* "Reconstruct from any `data_shards` of `total` shards": a GET of a file *)
(* that nobody deletes fails only after more errors than parity shards.    *)
ParityCoversErrors ==
    [][\A c \in Clients :
          Answered(c) /\ upload[c] \notin doomed /\ pc[c] \in {"fetch", "decode"}
            => faults > TotalShards - DataShards]_vars

(* "DELETE - Delete file": a DELETE takes its shards from the file that    *)
(* was PUT to the path it names.                                           *)
DeleteIsOfItsPath ==
    \A c \in Clients : pc[c] = "wipe" => home[upload[c]] = path[c]

(* "Remove from directory tree": the entry that a DELETE removes is the    *)
(* one whose shards it has wiped.                                          *)
DeleteRemovesWhatItWiped ==
    [][\A c \in Clients : pc[c] = "unlist" /\ Answered(c) =>
          \A u \in Uploads : Listed(u) /\ ~Listed(u)' => u = upload[c]]_vars
=============================================================================
