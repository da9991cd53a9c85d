----------------------------- MODULE Throttler -----------------------------
(***************************************************************************)
(* throttler.js: token buckets, one for the engine (GlobalThrottler) and   *)
(* one for each torrent (TorrentThrottler) that asks the global one first, *)
(* with the senders of uploadManager._sendBlockWithThrottle, which ask     *)
(* until their block is sent.  Both directions are alike; one is modelled. *)
(*                                                                         *)
(* Tokens are fractional in the code: a tick adds limit * interval / 1000  *)
(* of a byte.  Here they are counted in 1/Ticks of a byte, Ticks being the *)
(* ticks per second, so that a tick adds exactly limit.  Shares are 1.0,   *)
(* as nobody passes others.                                                *)
(***************************************************************************)
EXTENDS Integers, Sequences, FiniteSets

CONSTANTS Client,     \* torrents, each with a throttler and a sender
          Ticks,      \* refills per second
          Limit,      \* limits that are set (bytes per second); 0: unlimited
          BlockSize,  \* bytes of a block
          MaxChanges  \* bound: changed limits, pauses, destroyed throttlers

ASSUME ThrottlerAssumption ==
  /\ Ticks \in Nat \ {0} /\ Limit \subseteq Nat /\ 0 \in Limit
  /\ BlockSize \in Nat \ {0} /\ MaxChanges \in Nat
  /\ IsFiniteSet(Client) /\ "global" \notin Client

Bucket == Client \union {"global"}

VARIABLES limit, tokens,
          waiters,   \* _uploadQueue: sequence of [who, bytes]
          paused,    \* _isPaused
          ownLimit,  \* _perTorrentUploadLimit
          allocated, \* _allocations
          sender,    \* client -> [left, at, ask]
          changes

throttleVars == <<limit, tokens, waiters, paused, ownLimit, allocated, sender, changes>>

At == {"idle", "ask_global", "wait_global", "resume_global",
       "ask_own", "wait_own", "resume_own"}
Lesser(a, b) == IF a < b THEN a ELSE b

(* getAllocation and _updateEffectiveLimits: the limit of a torrent. *)
Share(t, total, alloc) == IF t \notin alloc THEN 0 ELSE total \div Cardinality(alloc)
Effective(own, share) ==
  IF own > 0 /\ share > 0 THEN Lesser(own, share) ELSE own + share

ThrottleInit ==
  /\ limit = [x \in Bucket |-> 0] /\ tokens = [x \in Bucket |-> 0]
  /\ waiters = [x \in Bucket |-> <<>>] /\ paused = {}
  /\ ownLimit = [t \in Client |-> 0] /\ allocated = Client
  /\ sender = [t \in Client |-> [left |-> 0, at |-> "idle", ask |-> 0]] /\ changes = 0

Change == changes < MaxChanges /\ changes' = changes + 1
-----------------------------------------------------------------------------
(* What a sender does with what it is granted: from the global bucket on to its
   own, from there to the wire; what its own bucket cuts off is not given back. *)
Granted(s, bucket, n) ==
  IF bucket = "global" THEN [s EXCEPT !.at = "ask_own", !.ask = n]
  ELSE [left |-> s.left - n, ask |-> s.left - n,
        at |-> IF s.left > n THEN "ask_global" ELSE "idle"]

(* requestUpload after its first checks: all, what there is, or the queue. *)
Take(x, t) ==
  LET b == sender[t].ask
      got == IF tokens[x] >= b * Ticks THEN b ELSE tokens[x] \div Ticks
  IN  IF tokens[x] >= b * Ticks \/ tokens[x] > 0
      THEN /\ tokens' = [tokens EXCEPT ![x] =
                           IF @ >= b * Ticks THEN @ - b * Ticks ELSE 0]
           /\ sender' = [sender EXCEPT ![t] = Granted(@, x, got)]
           /\ UNCHANGED waiters
      ELSE /\ waiters' = [waiters EXCEPT ![x] = Append(@, [who |-> t, bytes |-> b])]
           /\ sender' = [sender EXCEPT ![t].at =
                           IF x = "global" THEN "wait_global" ELSE "wait_own"]
           /\ UNCHANGED tokens

RequestUpload(x, t) ==
  /\ sender[t].at = (IF x = "global" THEN "ask_global" ELSE "ask_own")
  /\ x \in {"global", t}
  /\ IF limit[x] = 0
     THEN sender' = [sender EXCEPT ![t] = Granted(@, x, @.ask)] /\ UNCHANGED <<tokens, waiters>>
     ELSE IF x \in paused
     THEN /\ sender' = [sender EXCEPT ![t].at =
                          IF x = "global" THEN "resume_global" ELSE "resume_own"]
          /\ UNCHANGED <<tokens, waiters>>
     ELSE Take(x, t)
  /\ UNCHANGED <<limit, paused, ownLimit, allocated, changes>>

(* _waitForResume returns: the limit is not looked at again. *)
AfterResume(x, t) ==
  /\ sender[t].at = (IF x = "global" THEN "resume_global" ELSE "resume_own")
  /\ x \in {"global", t} \ paused
  /\ Take(x, t)
  /\ UNCHANGED <<limit, paused, ownLimit, allocated, changes>>

SendBlock(t) ==
  /\ sender[t].at = "idle"
  /\ sender' = [sender EXCEPT ![t] = [left |-> BlockSize, at |-> "ask_global",
                                      ask |-> BlockSize]]
  /\ UNCHANGED <<limit, tokens, waiters, paused, ownLimit, allocated, changes>>
-----------------------------------------------------------------------------
(* _processQueue: the requests at the head that are served in full, then one in
   part, which empties the bucket. *)
Serve(s) ==
  IF s.queue = <<>> \/ s.tokens = 0 THEN s
  ELSE LET r == Head(s.queue)
           all == s.tokens >= r.bytes * Ticks
       IN  [queue |-> Tail(s.queue),
            tokens |-> IF all THEN s.tokens - r.bytes * Ticks ELSE 0,
            sender |-> [s.sender EXCEPT ![r.who] =
              Granted(@, s.bucket, IF all THEN r.bytes ELSE s.tokens \div Ticks)],
            bucket |-> s.bucket]
ServeOne(s) == Serve(s)                                          \* mutant
ServeWaiters(s) ==
  LET served[n \in 0..Len(s.queue)] == IF n = 0 THEN s ELSE Serve(served[n - 1])
  IN  served[Len(s.queue)]

RefillWhenIdle(x) ==                                             \* mutant
  /\ limit[x] > 0 /\ x \notin paused /\ x \in allocated \union {"global"}
  /\ waiters[x] = <<>>
  /\ tokens' = [tokens EXCEPT ![x] = Lesser(@ + limit[x], limit[x] * Ticks)]
  /\ UNCHANGED <<waiters, sender, limit, paused, ownLimit, allocated, changes>>
Refill(x) ==
  /\ limit[x] > 0 /\ x \notin paused /\ x \in allocated \union {"global"}
  /\ LET full == Lesser(tokens[x] + limit[x], limit[x] * Ticks)
     IN  \E s \in {ServeWaiters([queue |-> waiters[x], tokens |-> full,
                                 sender |-> sender, bucket |-> x])} :
           /\ tokens' = [tokens EXCEPT ![x] = s.tokens]
           /\ waiters' = [waiters EXCEPT ![x] = s.queue]
           /\ sender' = s.sender
  /\ UNCHANGED <<limit, paused, ownLimit, allocated, changes>>
(* The limit of the engine: the torrents keep the share of the old one. *)
SetGlobalLimit(n) ==
  /\ Change
  /\ limit' = [limit EXCEPT !["global"] = n]
  /\ tokens' = [tokens EXCEPT !["global"] = Lesser(@, n * Ticks)]
  /\ UNCHANGED <<waiters, paused, ownLimit, allocated, sender>>

(* The limit of a torrent: its tokens are not cut to it. *)
SetTorrentLimit(t, n) ==
  /\ Change
  /\ ownLimit' = [ownLimit EXCEPT ![t] = n]
  /\ limit' = [limit EXCEPT ![t] = Effective(n, Share(t, limit["global"], allocated))]
  /\ UNCHANGED <<tokens, waiters, paused, allocated, sender>>

PauseBucket(x) ==
  /\ Change /\ x \notin paused
  /\ paused' = paused \union {x}
  /\ UNCHANGED <<limit, tokens, waiters, ownLimit, allocated, sender>>
ResumeBucket(x) ==
  /\ x \in paused
  /\ paused' = paused \ {x}
  /\ UNCHANGED <<limit, tokens, waiters, ownLimit, allocated, sender, changes>>

(* destroy: the torrent's share goes to the others (every throttler listens, the
   destroyed one too), its refill stops, who waits gets nothing. *)
DestroyThrottler(t) ==
  /\ Change /\ t \in allocated
  /\ allocated' = allocated \ {t}
  /\ limit' = [x \in Bucket |-> IF x = "global" THEN limit[x]
                 ELSE Effective(ownLimit[x], Share(x, limit["global"], allocated'))]
  /\ waiters' = [waiters EXCEPT ![t] = <<>>]
  /\ sender' = [u \in Client |-> IF \E i \in DOMAIN waiters[t] : waiters[t][i].who = u
                                 THEN Granted(sender[u], t, 0) ELSE sender[u]]
  /\ UNCHANGED <<tokens, paused, ownLimit>>

ThrottleNext ==
  \/ \E t \in Client : SendBlock(t) \/ DestroyThrottler(t)
  \/ \E x \in Bucket, t \in Client : RequestUpload(x, t) \/ AfterResume(x, t)
  \/ \E x \in Bucket : Refill(x) \/ PauseBucket(x) \/ ResumeBucket(x)
  \/ \E n \in Limit : SetGlobalLimit(n) \/ \E t \in Client : SetTorrentLimit(t, n)

(* The refill is an interval timer; a sender goes on when it is answered. *)
SenderGoesOn(t) == \E x \in Bucket : RequestUpload(x, t) \/ AfterResume(x, t)
ThrottleFairness ==
  /\ \A x \in Bucket : WF_throttleVars(Refill(x))
  /\ \A t \in Client : WF_throttleVars(SenderGoesOn(t))

ThrottleSpec == ThrottleInit /\ [][ThrottleNext]_throttleVars /\ ThrottleFairness
-----------------------------------------------------------------------------
(* Type invariant. *)
ThrottleTypeOK ==
  /\ limit \in [Bucket -> Nat] /\ tokens \in [Bucket -> Nat]
  /\ tokens["global"] <= limit["global"] * Ticks
  /\ waiters \in [Bucket -> Seq([who : Client, bytes : Nat])]
  /\ paused \subseteq Bucket /\ allocated \subseteq Client
  /\ ownLimit \in [Client -> Limit] /\ changes \in 0..MaxChanges
  /\ sender \in [Client -> [left : 0..BlockSize, at : At, ask : 0..BlockSize]]

(* While a request waits at a bucket the bucket is empty: no later request is
   served before it, whatever limits, pauses and refills come in between, unless
   the limit is lifted.  A client waits at most once, where its sender says. *)
NoOvertaking ==
  \A x \in Bucket :
    /\ waiters[x] # <<>> => tokens[x] = 0
    /\ \A t \in Client :
         Cardinality({i \in DOMAIN waiters[x] : waiters[x][i].who = t}) =
           (IF sender[t].at = "wait_global" /\ x = "global" THEN 1
            ELSE IF sender[t].at = "wait_own" /\ x = t THEN 1 ELSE 0)

(* A block is sent in the end through both buckets, however small the grants are,
   as long as no bucket is paused or destroyed, unless a limit is below one byte a
   tick (each tick's fraction is thrown away on a grant of 0 bytes) or a limit was
   lifted while the sender waited (nothing is refilled and the queue stays). *)
BlockSent ==
  \A t \in Client :
    []<>( \/ sender[t].left = 0
          \/ {"global", t} \intersect paused # {} \/ t \notin allocated
          \/ \E x \in {"global", t} :
               limit[x] \in 1..(Ticks - 1) \/ (limit[x] = 0 /\ waiters[x] # <<>>) )
=============================================================================
