# Formal models of dynoc

dynoc is a C client for Dynomite: a ring of Redis nodes, organised in
datacenters and racks, each rack holding a full copy of the data. This directory
holds TLA+ models of the client, the TLC configurations that check them on small
instances, and TLAPS proofs that hold for every instance.

## 1. Inventory

| Component | State | Operations | Where |
|---|---|---|---|
| Configuration | datacenters, racks, `continuum` arrays, hash type | `dynoc_init`, `dynoc_hash_type_init`, `dynoc_datacenter_init`, `dynoc_rack_init`, `dynoc_add_node` | `dynoc-core.c` |
| Start | one connection per node | `dynoc_start`, `redis_connection_pool_init` | `dynoc-core.c` |
| Health check | `status` and `ctx` of every `redis_connection` | `reconnect_thread`, `reconnect_datacenter` every 30 s | `dynoc-core.c` |
| Commands | the same connections; locals `dc_type`, `rc_idx` | `dynoc_set` ... `dynoc_decrby` (11), `select_connection`, `reset_redis_connection` | `dynoc-cmd.c` |
| Token ring | sorted `continuum` of a rack | sort in `redis_connection_pool_init`, `select_continuum` | `dynoc-core.c`, `dynoc-cmd.c` |
| Tokens | `struct token` | `token_parse`, `token_cmp`, ... | `dynoc-token.c` |
| Hashes | none (MD5: a context on the stack) | 13 functions, `get_hash_func`, `get_hash_type` | `hash-*.c`, `dynoc-hashkit.c` |
| Shutdown | everything above | `dynoc_destroy` | `dynoc-core.c` |

Interaction: one thread configures and calls `dynoc_start`, which connects to
every node and creates `reconnect_thread`. From then on application threads and
`reconnect_thread` share the connections, each protected by its own mutex. A
command hashes its key, asks `select_continuum` for the owner in the first rack,
locks that node's connection, sends, and on failure resets the connection and
goes on to the next rack. At the end the main thread joins its workers and calls
`dynoc_destroy`, which cancels `reconnect_thread` and frees everything. Outside
the library are hiredis (its submodule is empty here) and the servers.

What is hard: the health check and the commands reset and replace contexts that
others are about to use; a server may stop between any two steps, also between
connect and AUTH, and may hang without closing its connections; a lost reply
makes the command run again elsewhere; the walk over the racks depends on two
coupled counters; the search relies on indices assigned after a sort; token
parsing wraps at 32 bits; the configuration calls check nothing and report
nothing; the hash functions depend on alignment, on the sign of `char` and on
widths; the shutdown does not wait for the thread it cancels. `PROJECT.json`
lists each hazard at its line together with the properties aimed at it.

What makes each component correct:

* Pool: mutual exclusion per connection; no freed, shared or foreign context;
  no context freed under a waiting command; recovery of nodes that come back.
* Commands: only owners of the key execute them; local racks before the remote
  one; a bounded number of executions; every call returns; no success without an
  execution.
* Ring: the result is the first node clockwise from the key.
* Tokens: ring order is numeric order; parsing stays inside the string.
* Configuration: a caller who keeps to the (unwritten) contract meets no undefined
  behaviour and gets the rings he asked for.
* Hashes: the same key has the same owner on every client; keys are spread.
* Shutdown: everything is freed once, and nothing that is still in use.

## 2. Modules

| Module | Content | Builds on |
|---|---|---|
| `DynocPool` | start, health check, all commands, failover, server crashes | |
| `DynocPoolProofs` | inductive invariant and theorems about `DynocPool` | `DynocPool` |
| `DynocService` | abstract specification: what a caller of a command is promised | |
| `DynocPoolService` | the refinement mapping from `DynocPool` to it | `DynocPool`, `DynocService` |
| `DynocServiceProofs` | the refinement; failover order, re-execution bound and leaks of `DynocPool` | `DynocPoolProofs`, `DynocPoolService` |
| `DynocHang` | servers that stop answering and may resume | `DynocPool` |
| `DynocHangProofs` | a hanging server delays and does nothing else | `DynocHang`, `DynocServiceProofs` |
| `DynocShutdown` | `dynoc_destroy` against `reconnect_thread` | `DynocPool` |
| `DynocShutdownProofs` | the order of the shutdown, and the pool until the first free | `DynocShutdown`, `DynocPoolProofs` |
| `DynocSetup` | configuration calls in any order, allocation failures, hash selection | |
| `DynocSetupProofs` | the contract of the configuration calls | `DynocSetup` |
| `DynocToken` | tokens and their comparison | |
| `DynocParse` | `token_parse` statement by statement | `DynocToken` |
| `DynocRing` | adding, sorting and searching the ring of one rack | `DynocToken` |
| `DynocRingProofs` | `token_cmp` is a total preorder; the search is correct | `DynocRing` |
| `DynocWord` | C integers of 32 and 64 bits as sequences of bytes | |
| `DynocCrc` | the tables of the two CRCs | `DynocWord` |
| `DynocHash` | eleven hash functions, byte by byte | `DynocCrc` |
| `DynocBalance` | key after key through a hash and a ring | `DynocHash` |
| `DynocJenkins` | how `hash_jenkins` reads a key | |
| `DynocMd5` | buffering and padding of `hash_md5` | |
| `DynocKeys` | `token_parse`, `hash_jenkins`, `hash_md5` and the other hashes side by side | `DynocParse`, `DynocJenkins`, `DynocMd5`, `DynocBalance` |
| `DynocKeysProofs` | the first three, for inputs of every length | `DynocKeys` |
| `DynocHashProofs` | the other hashes, for keys of every length | `DynocKeysProofs` |
| `MCDynocPool`, `MCDynocService`, `MCDynocHang`, `MCDynocShutdown`, `MCDynocSetup` | topologies and arguments for TLC | |
| `MCDynocKeys`, `MCKeySamples` | all functions between key and node side by side, and their arguments | `DynocRing`, `DynocKeys` |

`DynocPool` takes the outcome of a ring lookup as the constant `Route`, and
`DynocRing` shows which index that is. `DynocRing` takes the node tokens that
`token_parse` can produce (`NodeToken`) as given, and `DynocParse` shows which
strings denote which of them. `DynocPool` assumes racks with between one and
`node_count` nodes (`TopologyAssumption`), and `DynocSetup` shows which calls
establish that (`EstablishesTopology`).

### DynocPool and the code

A slot `<<dc, i, j>>` is `dc->rack[i].redis_conn_pool[j]`; the same triple names
`continuum[j]` and the server it points to. `status`, `ctx` and `lock` are the
fields of `struct redis_connection`. `heap` and `peer` are hiredis' view of each
context: free, open or broken, and the server at the other end. A context is
identified by its socket descriptor and connecting takes the lowest free one.

The keeper is the thread inside `dynoc_start` until `kpc = "sleep"` and
`reconnect_thread` from then on. `kpos` is its position in the nested loops,
`kstatus` the local variable `status`, `kctx` a context opened but not yet
stored. Steps are split where another thread or a server can act in between:
the mutex, the health check's PING, connect, and AUTH.

A client's `pc` is `idle`, `select` (about to call `select_connection`), `lock`
(at `pthread_mutex_lock`), `locked`, or `wait` (inside `redisCommand`). The
eleven command functions share their body; they differ in the arguments tested
against NULL and in the request text, so each is an instance of `Command`. A
reply is a success, an error reply, or missing because the connection broke,
before or after the server executed the command. `tried` and `exec` are history
variables: the racks the current command selected, and how often each server
executed it.

Two behaviours of the code are kept on purpose. `select_connection` tests the
pointer `dc_type`, so after one attempt in the remote datacenter it comes back to
the local racks. `status` in `reconnect_datacenter` and in
`redis_connection_pool_init` survives from one node to the next.

### DynocService: what a caller sees

Three variables per client: `busy` (the key of its command, or NULL), `executed`
(how often each server executed that command) and `result`. A command may be
executed by an owner of its key any number of times; it returns success only
after an execution, and it may fail although it was executed. There are no
connections, mutexes, racks or health checks in it. The mapping takes `busy` from
`pc` and `key`, `executed` from `exec` and `result` from `ret`; every step of
`DynocPool` is then a step of the service or leaves it unchanged.

### DynocHang and the code

`redisConnectWithTimeout` is the only call with a timeout. `DynocHang` adds a set
of servers that do not answer although their connections stay open: the steps
that wait for a reply (PING, AUTH, a command) are disabled as long as the server
at the other end hangs; connecting to it still works, because the kernel accepts
the connection. A hung server resumes or dies.

### DynocShutdown and the code

`dynoc_destroy` is split at every free: the `continuum` array of a rack, each
connection, the pool array, rack after rack, the local datacenter first.
`reconnect_thread` is cancelled in deferred mode: it ends inside `sleep`, connect,
or the reads and writes of a request, but not in `pthread_mutex_lock`, and a call
that was about to return when the cancellation came may still return (`inCall`).
`fault` says that a thread used, or freed again, what was freed; the behaviour
ends there. `early` is a history variable: `reconnect_thread` had ended before
the first free.

### DynocSetup and the code

A rack's entry of `continuum` stands for the call that added it. The state is the
arrays as the code leaves them: `dc[t]` is NULL or a rack count
and an array of racks (or NULL, when its allocation failed), a rack has a name, a
`node_count` and the filled part of its `continuum`. Each call is one action with
its outcomes, among them that an allocation in it fails. Writing beyond an array
or through NULL is undefined behaviour and ends the behaviour (`phase =
"undefined"`); so do the first command that searches an empty ring
(`SelectsEmptyRing`) and the first pass of `reconnect_thread` over a rack whose
`continuum` was not allocated (`ReconnectsNowhere`). `asked` and `hashAsked` record what the caller asked for, so that
the contract can be stated in terms of his calls: one `dynoc_datacenter_init`
first, racks with distinct names and no more than `rack_count`, each before its
nodes, at most `node_count` nodes for each, at least one before `dynoc_start`.

### DynocRing, DynocToken, DynocParse and the code

Words are numbers modulo `UINT_MOD`, `-1` is `UINT_MOD - 1`, and arithmetic wraps
where the code's does. `DynocRing` has one action per branch of
`select_continuum`; the struct token is scribbled over by `token_parse(key)`
before the hash is stored in it, as in `select_connection`. `qsort` may leave any
sorted permutation.

### The hash modules and the code

`DynocWord` represents unsigned integers by their bytes, least significant first,
with addition, multiplication, shifts and xor modulo 2^32 or 2^64: the products of
these functions leave the integers TLC computes with. In `DynocHash` one action is
one turn of a function's loop (a byte, or a block of two or four), a second one
the tail and the final mixing. `h` is computed twice at once, for a compiler with
signed and for one with unsigned `char`. `DynocCrc` computes the two CRC
tables from their polynomials; the result equals the 256 entries of each table in
the source. `hash_crc16` returns its register without
masking it and `hash_crc32` only fifteen bits, as in the code.

`DynocJenkins` keeps which bytes of the key are added to which variable, shifted
how far, and which addresses are read, in the three branches of `hash_jenkins`
(words, half words, bytes, by the alignment of the buffer) with their
fall-throughs; the mixing macros permute the variables in the same way in all
three and are left out. `DynocMd5` keeps the context of an update in progress, with
the bytes of the key named by their position, so that a lost, repeated or stale
byte shows; `fed` are the blocks handed to `body`. `hash_md5` updates once; the
model allows two, which the functions support.

`DynocBalance` sends the first keys of the workers of `multi-thread-example.c`
through a hash function and the three tokens of the examples. `Owner` is the
lookup by its result, which `LookupCorrect` proves of `select_continuum`.

Operators named `X_Something` after a comment "Mutant" are wrong variants of `X`,
kept to show that the properties distinguish them; no specification uses them.

## 3. What TLC checks

| Run | Instance | Result |
|---|---|---|
| `pool_locking` | 2 threads with 2 calls each, 2 keys, a local rack with two nodes and an unfilled slot, the second node rejects its password, 3 contexts, 1 crash | mutexes (also that none stays locked), contexts, owners, leaks and the refinement of `DynocService` hold |
| `pool_failover` | 1 thread, 2 local racks and 1 remote rack with one node each, the first with password, 2 crashes | failover order and re-execution bound hold, every walk gets shorter |
| `pool_liveness` | the same topology, 5 contexts, 1 crash, no server refuses its password, fair scheduling | commands return, nodes recover |
| `hang` | 1 thread, 2 keys, 2 local nodes, the first with an accepted password and hanging, 1 crash, fair scheduling | only users of a hung node are held up; all recovers after the last hang |
| `keys` | rings of up to 4 nodes, strings of up to 4 characters, keys of up to 40 bytes (jenkins) and 130 bytes (MD5), sampled keys (the other hashes) | lookups, parsing and hashes agree with their definitions |
| `setup` | 2 datacenters, 2 names, counts 1 and 2, 6 calls, 1 failed allocation | the contract suffices and establishes the topology |
| `shutdown` | 2 local nodes, 1 remote node, the first with password, 1 crash, fair scheduling | shutdown ends, and is orderly once `reconnect_thread` has ended |
| `racks_tried` | 1 local and 2 remote racks | **violated**: the second remote rack is never asked |
| `reconnected` | a rejecting node, another local one and a remote one | **violated**: another node's failed AUTH marks a connected node INVALID |
| `password_refused` | a rejecting local node, a remote node without password, 3 contexts, 1 crash, fair scheduling | **violated**: the remote node is never connected again |
| `invalidation` | no crash at all | **violated**: an error reply closes a healthy connection |
| `shutdown_race` | as `shutdown`, without fairness | **violated**: `reconnect_thread` uses what `dynoc_destroy` freed |

Some of them deserve a reading.

* `ReexecutionBound`: a command can be executed twice by the same server. The
  reply is lost, the remote rack fails, the health check reopens the connection,
  and the walk returns to that local rack. The bound is 2 for local racks after
  the first, 1 for all others.
* `MutexReleased`: the holder of a mutex is always inside the critical section of
  that connection. So every path unlocks, and no thread holds one mutex while it
  waits for another: threads cannot wait for each other in a circle.
* `WalkShortens`: `dc_type` sends a command back to racks it has visited.
  `StepsAhead` bounds what is left of its walk, and every step of the command
  decreases it, whatever the other threads and the servers do.
* `HealthyNodeRecovers` and the second part of `RecoversAfterHang` assume that no
  server refuses the password the client has for it (`Rejecting = {}`). The code
  recovers nodes under that hypothesis only, for two reasons that have a run each.
  `reconnected`: the failed AUTH leaves `status` at INVALID, and every node without
  password that is reconnected behind it in that datacenter is stored as INVALID,
  in every pass. `password_refused` (`RecoversBesideRejecting`): also nodes that
  `status` cannot spoil stay away, because each pass overwrites the rejecting
  node's open context; after as many passes as there are descriptors nothing can
  be connected any more. They also assume `Contexts` to suffice for all nodes and
  for what interrupted AUTHs lose.
* `UnaffectedReturns` and `RecoversAfterHang`: a hung server never delays a
  command for keys it does not own. But it stops `reconnect_thread` at
  `dynoc-core.c:58` for as long as it hangs, and with it the recovery of all other
  nodes; this is why recovery is promised only after the last hang.
* `RingsComplete`: no call reports a failed allocation inside it. The property
  says what is left of the promise: a ring that serves keys at all has all of its
  nodes, so that no key silently moves to another owner.
* `SpreadsKeys` also says with which functions README.md:7 ("Topology aware load
  balancing") fails: with `crc32`, whose 15 bits (`hash-crc32.c:112`) lie before
  the first token of the examples' ring, and with `murmur3`, which is `return 0;`
  in `hash-murmur3.c`, all keys go to the first node.
* `PortableHash`: for keys beyond ASCII, the FNV functions, one-at-a-time and
  hsieh return different hashes where `char` is signed and where it is not. It is
  about the sign of `char` alone: `hash_murmur` loads words in the byte order of
  the machine, which the model takes to be little endian.
* `OrderlyShutdown`: contexts lost to a failed or interrupted AUTH stay open also
  after an orderly shutdown. The property is about memory and contexts: a thread
  that ended inside PING, connect or AUTH has left a mutex locked, and destroying
  that mutex (`dynoc-core.c:353`) is undefined in POSIX, though glibc only returns
  EBUSY.
* `NothingLost` and `FeedsPaddedMessage`: `hash_md5` calls `MD5_Update` once, so in
  this program the branch for a partial block never runs; the two say that the
  functions are right for other callers too.

### Bounds and why they are enough

Pool: two threads plus the keeper give every pairwise interleaving on a
connection; `pool_locking` has one rack, so that both threads meet at the same
connection as often as possible, and a command there still fails, resets and
gives up; the walk over several racks is the subject of `pool_failover`. Two local
racks are the least for the second visit of a rack. One crash reaches every point
of the connect, AUTH, PING and command sequences, two of them let a command lose
its reply at two servers; restarts are unlimited and servers may be down from the
start, so most combinations of unavailable nodes occur. `Contexts` has at least
one context more than there are nodes where leaks matter, so that a leak can
happen and exhaustion is reached too; in `pool_liveness` it is large enough for
every leak that one crash can cause (the interrupted AUTH and the slot after it),
and in `hang` likewise, because a process without descriptors cannot recover a
node. Hanging and resuming is unlimited.

Setup: six calls are enough for both datacenters with a rack and a node each, for
one with two racks and two nodes or for a rack with more nodes than it has room
for, with one call out of order. Of the hash names the first and the last one, an
unknown one and NULL occur. One failed allocation can be any of those in any call.

Keys: the functions share no state, so one run checks them side by side, each
behaviour running one of them (`call`), as in `DynocKeys`. 4 nodes exercise both branches of the
search twice; the tokens and hashes are the sampled words 0, 1, 15 and 31
(modulo `UINT_MOD` = 32), with both signs: both ends, neighbours, and words that
a hash lies below, between, equal to and above. In token parsing, 10 < 32 < 100
stands for 10^9 < 2^32 < 10^10 (the group length is the number of digits of the
largest word), and 4 characters give strings of one and two groups. 40 bytes are
three full blocks of jenkins and every tail, at all four alignments; 130 bytes are
two full MD5 blocks and every padding. The sampled keys of the other functions have
all lengths modulo 4 and bytes on both sides of the sign bit.

Deadlock checking is on except where the program stops: in `keys` (a function has
returned, or all keys are sent), `setup` (undefined
behaviour, or a running client that is not modelled further there), and `shutdown`
and `shutdown_race` (both threads have ended, or memory was misused).

### Fairness

`FairSpec` assumes that every thread keeps running (weak fairness of its steps).
Taking a mutex needs strong fairness: it is released and taken again without end,
but each holder releases it, and the keeper sleeps 30 s between passes. A server
with a request on an open connection answers it; the code sets no timeout on
commands, so without this assumption nothing would follow. A server that runs and
is asked again and again for a connection accepts one (strong fairness of
`ConnectTo`); connecting may time out any finite number of times. Crashes and
restarts have no fairness. `HangFairness` is the same, but a server has to answer
only as long as it does not hang, and hanging and resuming have no fairness.

`ShutFairSpec` assumes that the main thread goes on in `dynoc_destroy` and that a
cancelled `reconnect_thread` takes a mutex nobody holds, and ends at its
cancellation point. In `MCSpec` of `MCDynocKeys` the searching thread keeps
running.

## 4. What is proved

All constants are arbitrary, under the named assumptions of the modules:
`TopologyAssumption` (each rack was initialised and has between 1 and
`node_count` nodes), `RouteAssumption` (lookups return an index of a filled
entry, which `LookupCorrect` establishes), `ServerAssumption`,
`ContextAssumption`, `SetupAssumption` (a rack has at least one slot, a datacenter
at least one rack), `NullAssumption` (NULL is none of the things a pointer leads
to), `BoundAssumption`, `UintAssumption`, `NodeCountAssumption`.

### The pool

`DynocPoolProofs` proves `TypeOK`, `ExclusiveUse`, `ContextOwnership`,
`ServedByOwner`, `ChangedByHolder` and `NoFreeUnderCommand`. None of these is
inductive alone. `IInv` adds:

* `LockHeld`: a thread between lock and unlock of a connection is the holder of
  its mutex; gives `ExclusiveUse` and tells the keeper's and the commands'
  connections apart in every step.
* `StartQuiet`: no command runs during `dynoc_start`, which takes no mutex.
* `Routed`: the selected connection belongs to the owner of the key; gives
  `ServedByOwner` together with `ContextOwnership` (the context leads there).
* `WaitsOnValid`: a connection with a command waiting on it stays VALID, so it
  has a context by `ContextOwnership`.
* `AuthContext`: the context between connect and AUTH is allocated, leads to the
  keeper's node, and is in no slot.

`MutexReleased`, the converse of `LockHeld`, is inductive together with `TypeOK`.
`WalkShortens` needs only `TypeOK`; `SelectedAhead` is its core: each selected rack
is one less ahead. `WalkBounded` draws the conclusion that a command selects at
most twice as many racks as the local datacenter has. With fair scheduling the two
are the safety half of `CommandReturns`.

`DynocServiceProofs` proves `Spec => Service!SvcSpec` (`PoolImplementsService`).
The step argument goes through the actions of `DynocPool`: invoking maps to `Call`
or `Refuse`, the execution at a server to `Execute`, returning to `ReturnOk` or
`ReturnFail`, everything else to a stutter. It needs `IInv` (the server executing a
command is an owner of its key) and the invariant `Answered`: a command that has
received a success reply has been executed.

It also proves what depends on the walk of a command over the racks and on the
health check's doubts:

* `FailoverOrder` and `ReexecutionBound` follow from `WalkInv`. `Walked` says which
  racks a command has behind it at each value of `dc_type` and `rc_idx`, also after
  the turn through the remote datacenter that brings it back to the second local
  rack. `Exhausted` says that a failed command has been everywhere. `Counted` bounds
  the executions at a server by the visits of its rack that `Walked` allows; the
  visit in progress counts only once the server has executed the command.
* `LeakNeedsPassword` follows from `LeakInv`. A context that nobody holds comes from
  storing a new context over one that is still open. That needs an INVALID slot
  with a context, and `InvalidSuspect` says that such a slot has a password or lies
  behind a node that has one. The others carry this over the two places where
  the code forgets it: the local variable `status`, which survives from one node to
  the next (`StatusSuspect`), and the context between connect and AUTH
  (`KeeperContext`); `FreshSlots` and `Reopening` say that slots not reached yet
  during `dynoc_start` have no context to lose, that the slot being reconnected is
  INVALID, and that AUTH only happens at slots with a password.

`DynocHangProofs` proves that `DynocHang` implements `DynocPool`
(`HangRefinesPool`): every step of it is a step of the pool or leaves the pool
alone. The safety of the pool therefore also holds while servers hang
(`SafeWhileHanging`), and so does what a caller is promised
(`HangImplementsService`, by `PoolImplementsService`).

### The shutdown

`DynocShutdownProofs` proves `ShutTypeOK` and `OrderlyShutdown`. The invariant
`ShutInv` adds that `dpos` is a place in the arrays that follows from the phase of
`dynoc_destroy` (`DestroyPlace`), that, when the thread ended in time, exactly the contexts of the slots that
`rack_destroy` is done with are freed (`ClosedInOrder`), and that the pool invariant `IInv` holds until the first free
(`IntactPool`): up to there a cancelled thread is one that takes no further step, in
or out of a critical section. `SafeUntilFirstFree` states that part for a reader of
the pool.

### The ring

`DynocRingProofs` proves `TypeOK` and `SelectsSuccessor`. `CmpOneWord` removes
the loop of `token_cmp` for one-word tokens; from it follow antisymmetry,
transitivity and strictness. The loop invariant `Window` says that everything
left of the window is smaller than the token and its right end is not.
`SearchEnds` (`WindowHalves`) says that each turn of the loop leaves at most half of
the window.

### The configuration

`DynocSetupProofs` proves all five properties of the run `setup`, for any number of
calls, racks, nodes, names and failing allocations. `SetupInv` relates the arrays to
the calls made so far:

* `Types`: the arrays are arrays of racks; with `HashChosen`, `SetupTypeOK`.
* `Fits`: up to undefined behaviour no array holds more than it has room for, and a
  rack whose name could not be copied holds nothing. This is no promise of the
  code, which compares nothing: the overrun is one of the ways to `undefined`, and
  what keeps a program away from it is the contract (`ContractSuffices`).
* `Orderly`: a caller who kept the order asked for nothing before its datacenter and
  for no node before its rack. Without it a new rack could have been asked for nodes
  already that it never gets.
* `Remembers`: also with failed allocations, each rack with a name is one asked for,
  and its `continuum` was never allocated or has all nodes of that name; gives
  `RingsComplete`.
* `Exact`: without failed allocations the named racks are the racks asked for, in
  that order, with exactly their nodes; gives `EstablishesTopology`, and shows in
  every call that undefined behaviour needs a broken contract, which is
  `ContractSuffices`.
* `HashChosen`: `hash_type` selects the function asked for; gives
  `HashFollowsCaller`.

`Remembers` and `Exact` speak of callers who kept to the contract so far, and each
call's lemma (`RackInitKeeps`, `AddNodeKeeps`) shows that a contract kept after the
call was kept before it.

### Parsing and hashing

TLC checks keys of up to 40 and 130 bytes, strings of up to 4 characters and a
sample of keys for the other hashes; `DynocKeysProofs` and `DynocHashProofs` prove
the same for every length and every key. The theorems are about `KeysSpec` of
`DynocKeys`, in which a behaviour runs one of the functions; `KeysTypeCorrect` puts
their types together (`KeysTypeOK`).

What a recursive definition of the model computes needs induction. The library's
induction theorems take a predicate as parameter, which the provers cannot
instantiate; `Least` and `Induction` say the same of a set of numbers, from the
fact that `<` is well founded, and the lemmas about recursive functions
instantiate them with the set of arguments for which the claim holds.

* `hash_jenkins`: `JenkinsInv` says that the blocks mixed so far are the first
  `k / 12` blocks of the key (`BlocksOf`), in which byte `i` is added to the
  variable and with the shift that the byte-wise branch gives it (`Place`).
  `Covers` states that of one load after the other, whatever the alignment chose:
  it adds the bytes it reads, each once and in its place. The masked loads at the
  end of an aligned key read more than they add (`WordLoadsCover`), but nothing
  beyond the word of the last byte. Hence `AlignmentIrrelevant` and
  `ReadsStayInWord`.
* `hash_md5`: `Md5Inv` contains `Keeps`: between updates the blocks given to `body`
  are the key up to the last multiple of 64, and the buffer begins with the rest.
  That gives `NothingLost` for any number of updates of any sizes, though what
  follows the rest in the buffer is stale. `Counts` says that `ctx->lo` and
  `ctx->hi` are the number of bytes modulo and divided by 2^29, the carry included,
  so the length field is right for keys beyond that size too. For `MD5_Final`,
  `Spells` and `BlockSpells` compare blocks byte by byte with the padded message;
  the case with a second block (`used > 56`) clears the stale bytes before it
  writes the length.
* `token_parse`: `ParseInv` says that after the first group whole groups of digits
  are left (`WholeGroups`), so the reads end with the string
  (`GroupsTileString`), for every group length. `ParsedInv` adds that a number
  in range is read in one group, so that the word is its value. It gives
  `ParseTypeOK` and `RingOrderIsNumeric`, under `ParseConstants`: a group has as many
  digits as the largest word, as 2^32 < 10^10 in the code.
* Types of the other hashes: `HashInv` says that `h` keeps its width, 64 bits in
  the loop of `hash_fnv1_64` and 32 everywhere else, and that a turn of a loop
  never takes more bytes than are left; from it `HashTypeOK`. The hypothesis,
  `HashConstants`, is that `Algs` are functions of the library and that the keys
  are sequences of bytes.
* `PortableHash`: a byte below 128 is the same `char` in both worlds, and the
  CRCs, murmur and murmur3 do not depend on the sign of a `char`.
* `LowWordOfFnv1a`: the low bytes of a product and of an xor depend only on the
  low bytes of the operands (`CastMul`, `CastXor`), and so `hash_fnv1a_64`, which
  keeps 32 bits after each byte, ends with the low word of the 64-bit hash.
* `CrcIsRemainder`: words are read as rows of bits (`Row`, `WordFrom`), where xor is
  addition without carry and a shift moves every bit. Shifts are then linear over
  xor and eight steps of the division are one shift by eight and one table entry
  (`EightSteps16`, `EightSteps32`). `Crc16Inv` and `Crc32Inv` say that the register
  holds the remainder of what was consumed; that of `hash_crc16` has bits above the
  sixteenth that are not masked, and the invariant shows that they never come
  back down.

### What is only model-checked

* `SpreadsKeys`: it speaks of the keys of the example and of one ring.
* That the tables `DynocCrc` computes are the tables in the source was compared
  entry by entry; the theorems are about the computed ones.
* Liveness: that commands return, nodes recover, users of other nodes are not held
  up, lookups return and the shutdown ends holds only under fairness, which the
  prover does not treat.

The runs that expect a violation need no proof: their counterexample is one.

## 5. What is not modelled

* The content of requests and replies, and Dynomite's replication.
* The mixing macros of `hash_jenkins`, the rounds of MD5 (`body`) and the packing
  of its result: straight-line arithmetic without a decision, for which a known
  answer test is the better tool. `crc32_sz` is not called by anything.
* `dynoc_add_node` after `dynoc_start`. It is a data race with every lookup and its
  node is never sorted in; neither the interface nor the examples do it.
* In `DynocPool`: allocation failures after the configuration, and rings that
  violate the contract (`DynocSetup` treats both).
* In `DynocSetup`: a failing copy of a datacenter's name, which is only logged, and
  of a node's host or password; the node then has no host, or is used without its
  password.
* Big endian machines (the loads of `hash_murmur`).
* In `DynocShutdown`: a mutex destroyed while it is locked, see `OrderlyShutdown`
  above; a context that hiredis was building when `reconnect_thread`
  was cancelled inside connect, and cancellation inside `close` (the context is
  lost in either case). Threads that run commands during `dynoc_destroy`: the
  example joins them first.
* Logging (`dynoc-debug.h`), and `example.c`, which makes the same calls as
  `multi-thread-example.c` from one thread.

## 6. Plan

All components are modelled, and every invariant and action property of the
passing runs is proved but for `SpreadsKeys`. What would add to it:

1. Measures as `StepsAhead` for the passes of `reconnect_thread` and for
   `dynoc_start`, the safety half of `HealthyNodeRecovers`.
2. The lookup inside the pool: `RouteAssumption` as a theorem about `DynocRing`
   rather than an assumption discharged in prose.
3. A shutdown that interrupts commands: which of the example's joins the order
   proved by `DestroyIsOrderly` depends on.
