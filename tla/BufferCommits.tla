--------------------------- MODULE BufferCommits ---------------------------
(***************************************************************************)
(* DMA-BUF commits (handlers/compositor.rs, handlers/explicit_sync.rs, the *)
(* blocker bookkeeping of state/session.rs): a commit waits for its fence  *)
(* in Smithay's transaction queue, and an explicit release point is either *)
(* adopted by the renderer's buffer or signalled by TideWM.  Surfaces are  *)
(* desynchronised; Smithay's queue and buffer wrapper are external, and a  *)
(* commit whose client is killed for it is not applied.                    *)
(***************************************************************************)
EXTENDS Integers, FiniteSets, Sequences, SequencesExt

CONSTANTS
  Surfaces,      \* wl_surfaces
  Drawers,       \* clients
  DrawerOf,      \* Surfaces -> Drawers
  Commits,       \* commits, numbered as they are made; one carries one pair of sync points
  Buffers,       \* wl_buffers
  PerClient,     \* MAX_PENDING_DMABUF_BLOCKERS_PER_CLIENT
  Total,         \* MAX_PENDING_DMABUF_BLOCKERS_TOTAL
  NoCommit

ASSUME BufferCommitsAssumption ==
  /\ DrawerOf \in [Surfaces -> Drawers] /\ Commits \subseteq Nat /\ NoCommit \notin Commits
  /\ PerClient \in Nat /\ Total \in Nat

VARIABLES
  made,        \* commits made -> [on, buf, explicit]
  fenced,      \* commits whose fence is not signalled: the GPU still writes
  sources,     \* dmabuf_blocker_sources: client -> commits with a watcher
  sourceCount, \* dmabuf_blocker_source_count
  blocked,     \* commits with a blocker that holds
  queue,       \* surface -> its transactions, oldest first
  wrapper,     \* surface -> the commit whose Buffer the renderer keeps
  finished,    \* PendingRelease::finished: adopted or signalled
  listed,      \* surface -> PendingReleases, the commits it lists
  signalled,   \* release points signalled
  rejected,     \* history: listed points whose commit cost its client the connection
  unlisted,    \* history: points over the limit, of which TideWM keeps no record
  alive,       \* surfaces that exist
  client       \* "up", "killed", "gone" (its disconnect was handled)

bcVars == <<made, fenced, sources, sourceCount, blocked, queue, wrapper,
            finished, listed, signalled, rejected, unlisted, alive, client>>
turnedDown == <<rejected, unlisted>>

BcInit ==
  /\ made = [k \in {} |-> 0] /\ fenced = {} /\ sources = [c \in Drawers |-> {}] /\ sourceCount = 0
  /\ blocked = {} /\ queue = [s \in Surfaces |-> <<>>] /\ wrapper = [s \in Surfaces |-> NoCommit]
  /\ finished = {} /\ listed = [s \in Surfaces |-> {}] /\ signalled = {}
  /\ rejected = {} /\ unlisted = {}
  /\ alive = Surfaces /\ client = [c \in Drawers |-> "up"]

Held(s) == IF wrapper[s] = NoCommit THEN {} ELSE {wrapper[s]}

-----------------------------------------------------------------------------
\* Mutant of Replaces: attaching the same buffer again keeps the old wrapper.
ReplacesOtherBuffer(chain, i, commits) ==
  chain[i - 1] = NoCommit \/ commits[chain[i - 1]].buf /= commits[chain[i]].buf

\* Smithay applies a surface's transactions in order, up to the first one a
\* blocker holds.  For each, commit_buffers adopts the buffer: the old wrapper
\* is retired, and with it its release point is signalled; the same buffer,
\* attached again with points of its own, is removed first so that it is
\* retired too.  An implicit commit of the same buffer keeps the wrapper.
\* chain: the commit whose wrapper is kept, and those applied now after it.
Replaces(chain, i, commits) ==
  \/ commits[chain[i]].explicit
  \/ chain[i - 1] = NoCommit
  \/ commits[chain[i - 1]].buf /= commits[chain[i]].buf
ReadyPart(q, holds) ==
  LET first == SelectInSeq(q, LAMBDA k : k \in holds)
  IN IF first = 0 THEN q ELSE SubSeq(q, 1, first - 1)
Explicits(commits) == {k \in DOMAIN commits : commits[k].explicit}
Applied(s, q, holds, commits) ==
  LET chain == <<wrapper[s]>> \o ReadyPart(q, holds)
      turns == {i \in DOMAIN chain : i = 1 \/ Replaces(chain, i, commits)}
      last == Max(turns)
  IN [now |-> chain[last],
      retired |-> {chain[i] : i \in turns \ {last}} \cap Explicits(commits),
      adopted |-> {chain[i] : i \in turns \ {1}} \cap Explicits(commits)]

\* The queues of client c after blocker_cleared, with its effects.
Clear(c, q, holds, commits, living) ==
  LET mine == {s \in living : DrawerOf[s] = c}
      result == [s \in mine |-> Applied(s, q[s], holds, commits)]
  IN /\ wrapper' = [s \in Surfaces |-> IF s \in mine THEN result[s].now
                                       ELSE IF s \in living THEN wrapper[s] ELSE NoCommit]
     /\ queue' = [s \in Surfaces |->
          IF s \in mine THEN SubSeq(q[s], Len(ReadyPart(q[s], holds)) + 1, Len(q[s]))
          ELSE IF s \in living THEN q[s] ELSE <<>>]
     /\ finished' = finished \cup (UNION {result[s].adopted : s \in mine})
          \cup (UNION {listed[s] : s \in alive \ living})
     /\ signalled' = signalled \cup (UNION {result[s].retired : s \in mine})
          \cup (UNION {(Held(s) \cap Explicits(made)) \cup (listed[s] \ finished) : s \in alive \ living})

\* reject_buffer_commit: the client is killed; its commit is not applied.
Reject(c) == client' = [client EXCEPT ![c] = "killed"]

\* The pre-commit hook and the commit of a buffer.  An explicit commit is
\* listed first and needs a watcher; an implicit one only while it is busy.
Commit(k, s, buf, explicit, busy, works) ==
  LET c == DrawerOf[s]
      open == listed[s] \ finished
      watch == explicit \/ busy
      admitted == Cardinality(sources[c]) < PerClient /\ sourceCount < Total
      commits == [x \in DOMAIN made \cup {k} |->
                    IF x = k THEN [on |-> s, buf |-> buf, explicit |-> explicit] ELSE made[x]]
  IN /\ k = Cardinality(DOMAIN made) + 1 /\ s \in alive /\ client[c] = "up"
     /\ made' = commits /\ UNCHANGED alive
     /\ IF explicit /\ Cardinality(open) >= PerClient
        THEN /\ Reject(c)                     \* too many pending releases: not listed
             /\ unlisted' = unlisted \cup {k}
             /\ listed' = [listed EXCEPT ![s] = open]
             /\ UNCHANGED <<fenced, sources, sourceCount, blocked, queue, wrapper, finished, signalled, rejected>>
        ELSE /\ listed' = IF explicit THEN [listed EXCEPT ![s] = open \cup {k}] ELSE listed
             /\ IF watch /\ ~(admitted /\ works)
                THEN /\ Reject(c)             \* no fence, no slot or no source
                     /\ rejected' = IF explicit THEN rejected \cup {k} ELSE rejected
                     /\ UNCHANGED <<fenced, sources, sourceCount, blocked, queue, wrapper, finished,
                                    signalled, unlisted>>
                ELSE /\ UNCHANGED <<client, turnedDown>>
                     /\ fenced' = IF busy THEN fenced \cup {k} ELSE fenced
                     /\ sources' = IF watch THEN [sources EXCEPT ![c] = @ \cup {k}] ELSE sources
                     /\ sourceCount' = sourceCount + (IF watch THEN 1 ELSE 0)
                     /\ blocked' = IF watch THEN blocked \cup {k} ELSE blocked
                     /\ Clear(c, [queue EXCEPT ![s] = Append(@, k)], blocked', commits, alive)

\* The fence signals; the watcher wakes, is untracked, and the queue is read.
FenceSignals(k) ==
  /\ k \in fenced /\ fenced' = fenced \ {k}
  /\ UNCHANGED <<made, sources, sourceCount, blocked, queue, wrapper, finished, listed, signalled, turnedDown,
                 alive, client>>
WatcherFires(c, k) ==
  /\ k \in sources[c] \ fenced
  /\ sources' = [sources EXCEPT ![c] = @ \ {k}] /\ sourceCount' = sourceCount - 1
  /\ blocked' = blocked \ {k}
  /\ Clear(c, queue, blocked', made, alive)
  /\ UNCHANGED <<made, fenced, listed, turnedDown, alive, client>>

\* A surface is destroyed: release_cancelled, remove_surface_buffer_blockers,
\* then the rest of the client's queues is read.
DestroySurface(s) ==
  LET c == DrawerOf[s]
      mine == {k \in sources[c] : made[k].on = s}
  IN /\ s \in alive /\ alive' = alive \ {s}
     /\ sources' = [sources EXCEPT ![c] = @ \ mine]
     /\ sourceCount' = sourceCount - Cardinality(mine)
     /\ blocked' = blocked \ mine /\ listed' = [listed EXCEPT ![s] = {}]
     /\ Clear(c, queue, IF client[c] = "up" THEN blocked' ELSE Commits, made, alive')
     /\ UNCHANGED <<made, fenced, turnedDown, client>>

\* The client leaves or was killed: handle_client_disconnect.
ClientGone(c) ==
  /\ client[c] /= "gone" /\ client' = [client EXCEPT ![c] = "gone"]
  /\ sources' = [sources EXCEPT ![c] = {}] /\ sourceCount' = sourceCount - Cardinality(sources[c])
  /\ UNCHANGED <<made, fenced, blocked, queue, wrapper, finished, listed, signalled, turnedDown, alive>>

BcNext ==
  \/ \E k \in Commits, s \in Surfaces, b \in Buffers, e, busy, works \in BOOLEAN :
       Commit(k, s, b, e, busy, works)
  \/ \E k \in Commits : FenceSignals(k)
  \/ \E c \in Drawers, k \in Commits : WatcherFires(c, k)
  \/ \E s \in Surfaces : DestroySurface(s)
  \/ \E c \in Drawers : ClientGone(c)
BcSpec == BcInit /\ [][BcNext]_bcVars

-----------------------------------------------------------------------------
\* The two counters that bound readiness watchers agree, and every watcher
\* still has a commit to wake: none outlives its surface.
WatchersCounted ==
  /\ sourceCount = Cardinality(UNION {sources[c] : c \in Drawers})
  /\ sourceCount <= Total
  /\ \A c \in Drawers : /\ Cardinality(sources[c]) <= PerClient
                        /\ \A k \in sources[c] : made[k].on \in alive /\ k \in Range(queue[made[k].on])

\* Every release point is accounted for, once: its commit waits, or the
\* renderer keeps its buffer, or it was signalled.  So a client never waits for
\* a buffer TideWM has dropped, and never gets one back that is on screen.  The
\* points of a commit that cost its client the connection are the exception:
\* they are signalled with its surface, but for one over the limit, which
\* TideWM forgets.
PointsAccounted ==
  \A k \in DOMAIN made : made[k].explicit =>
    LET s == made[k].on
        waits == k \in Range(queue[s])
        kept == k \in Held(s)
        down == k \in rejected \cup unlisted
    IN /\ waits \/ kept \/ down \/ k \in signalled
       /\ ~(waits /\ kept) /\ ~((waits \/ kept) /\ (down \/ k \in signalled))
       /\ down => client[DrawerOf[s]] /= "up"
       /\ k \in rejected => k \in signalled \/ (s \in alive /\ k \in listed[s] \ finished)

\* Nothing is shown before the GPU is done with it, and the commits that wait
\* keep their order: a watcher is all that is between them and the screen.
FencesHold ==
  /\ \A s \in alive : \A k \in Held(s) : k \notin fenced
  /\ \A s \in alive : client[DrawerOf[s]] = "up" /\ queue[s] /= <<>> => Head(queue[s]) \in sources[DrawerOf[s]]

\* Watchers, release points and fences hold together (dmabuf_blockers and
\* PendingRelease): no commit of a connected client is forgotten, signalled
\* while it waits or is kept, or shown too early.
CommitsAccounted == WatchersCounted /\ PointsAccounted /\ FencesHold
=============================================================================
