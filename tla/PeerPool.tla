------------------------------ MODULE PeerPool ------------------------------
(***************************************************************************)
(* peerManager.js with the sockets of peerConnection.js and the strikes of *)
(* PeerBanManager: dialling, handshakes, closed sockets, reconnection,     *)
(* bans, and destroy.  Connections are objects of their own, while         *)
(* activeConnections, bans and slots go by ip:port or ip: two dials of one *)
(* peer, a dial that outlives its timeout and a close that comes late all  *)
(* meet in these maps.                                                     *)
(*                                                                         *)
(* A destroyed socket emits close in the next turn of the event loop,      *)
(* which is before another socket connects.                                *)
(***************************************************************************)
EXTENDS Integers, FiniteSets

CONSTANTS Peer,        \* ip:port
          IpOf,        \* its ip
          PieceOf,     \* TRUE if its bitfield has the piece
          MaxPerIp,    \* maxConnectionsPerIP
          MaxTotal,    \* maxConnections
          MaxStrikes,  \* strikes for a ban
          MaxFailures, \* failed dials after which a closed peer is not dialled again
          MaxDials     \* bound: sockets made

ASSUME PeerPoolAssumption ==
  /\ IsFiniteSet(Peer) /\ PieceOf \in [Peer -> BOOLEAN] /\ Peer \subseteq DOMAIN IpOf
  /\ MaxPerIp \in Nat \ {0} /\ MaxTotal \in Nat \ {0}
  /\ MaxStrikes \in Nat \ {0} /\ MaxFailures \in Nat \ {0} /\ MaxDials \in Nat

Conn == 1..MaxDials
Ip == {IpOf[k] : k \in Peer}

VARIABLES conns,      \* number -> the connection, for sockets that are not closed
          dials,      \* sockets made so far
          active,     \* activeConnections: ip:port -> number
          slots,      \* ipConnections
          count,      \* pieceAvailability of the one piece that is followed
          failures,   \* peerHealth: failed dials, up to MaxFailures; -1 for no record
          timers,     \* reconnectionTimers
          strikes,
          destroyed,
          slow        \* ips for which a dial outlived its handshake timeout

poolVars == <<conns, dials, active, slots, count, failures, timers,
              strikes, destroyed, slow>>
Connection == [key : Peer, phase : {"dialing", "open", "up", "closing"},
               told : BOOLEAN,   \* its bitfield has come
               bit : BOOLEAN,    \* the piece is in peerBitfield
               settled : BOOLEAN,\* connect() has resolved or rejected
               timed : BOOLEAN]  \* the handshake timer runs

PoolInit ==
  /\ conns = [c \in {} |-> 0] /\ dials = 0
  /\ active = [k \in {} |-> 0] /\ slots = [i \in Ip |-> 0] /\ count = 0
  /\ failures = [k \in Peer |-> -1] /\ timers = {} /\ strikes = [k \in Peer |-> 0]
  /\ destroyed = FALSE /\ slow = {}

Dropped(f, S) == [x \in DOMAIN f \ S |-> f[x]]
Put(f, x, v) == [y \in DOMAIN f \union {x} |-> IF y = x THEN v ELSE f[y]]
Banned(k) == strikes[k] >= MaxStrikes
Minus1(n) == IF n > 0 THEN n - 1 ELSE 0
One(b) == IF b THEN 1 ELSE 0
FreeSlotUnchecked(k) == slots' = [slots EXCEPT ![IpOf[k]] = @ - 1]          \* mutant
FreeSlot(k) == slots' = [slots EXCEPT ![IpOf[k]] = Minus1(@)]
QueueReconnection(k) ==
  timers' = IF destroyed \/ Banned(k) THEN timers ELSE timers \union {k}
Quiet == \A c \in DOMAIN conns : conns[c].phase # "closing"
-----------------------------------------------------------------------------
(* connectToPeer up to its await: a peer that is active, banned or over the limit of
   its ip is forgotten. *)
DialOverLimit(k) ==                                       \* mutant
  IF destroyed \/ k \in DOMAIN active \/ Banned(k)
  THEN UNCHANGED <<conns, dials, slots>>
  ELSE /\ dials < MaxDials
       /\ dials' = dials + 1
       /\ conns' = Put(conns, dials + 1,
            [key |-> k, phase |-> "dialing", told |-> FALSE, bit |-> FALSE,
             settled |-> FALSE, timed |-> TRUE])
       /\ slots' = [slots EXCEPT ![IpOf[k]] = @ + 1]
Dial(k) ==
  IF destroyed \/ k \in DOMAIN active \/ Banned(k) \/ slots[IpOf[k]] >= MaxPerIp
  THEN UNCHANGED <<conns, dials, slots>>
  ELSE /\ dials < MaxDials
       /\ dials' = dials + 1
       /\ conns' = Put(conns, dials + 1,
            [key |-> k, phase |-> "dialing", told |-> FALSE, bit |-> FALSE,
             settled |-> FALSE, timed |-> TRUE])
       /\ slots' = [slots EXCEPT ![IpOf[k]] = @ + 1]

(* connectToPeers: peers from the pool, with 100 ms in between.  Trackers and DHT put
   peers into the pool at any time, so any peer may be the next; that calls exclude
   each other (connecting) only delays a dial. *)
ConnectToPeers(k) ==
  /\ Cardinality(DOMAIN active) < MaxTotal
  /\ Dial(k)
  /\ UNCHANGED <<active, count, failures, timers, strikes, destroyed, slow>>

(* The timer of _queueReconnection.  connectToPeer never throws, so that the record
   with the attempts is dropped after each of them and no attempt is the last. *)
Reconnect(k) ==
  /\ k \in timers
  /\ timers' = timers \ {k}
  /\ Dial(k)
  /\ UNCHANGED <<active, count, failures, strikes, destroyed, slow>>
-----------------------------------------------------------------------------
(* The socket connects: connect() resolves, or nobody waits for it any more. *)
SocketConnects(c) ==
  /\ c \in DOMAIN conns /\ conns[c].phase = "dialing" /\ Quiet
  /\ LET k == conns[c].key
         late == ~conns[c].settled /\ destroyed
     IN  /\ conns' = [conns EXCEPT ![c].phase = IF late THEN "closing" ELSE "open",
                                   ![c].settled = TRUE, ![c].timed = @ /\ ~late]
         /\ IF late THEN FreeSlot(k) ELSE UNCHANGED slots
         /\ failures' = IF conns[c].settled \/ late \/ failures[k] >= 0 THEN failures
                        ELSE [failures EXCEPT ![k] = 0]
  /\ UNCHANGED <<dials, active, count, timers, strikes, destroyed, slow>>

(* connectToPeer after connect() has rejected. *)
Rejected(c) ==
  LET k == conns[c].key IN
  IF conns[c].settled THEN UNCHANGED <<failures, slots, timers>>
  ELSE /\ failures' = [failures EXCEPT ![k] =
            IF @ < 0 THEN 1 ELSE IF @ < MaxFailures THEN @ + 1 ELSE @]
       /\ FreeSlot(k) /\ QueueReconnection(k)

DialFails(c) ==
  /\ c \in DOMAIN conns /\ conns[c].phase = "dialing" /\ Quiet
  /\ Rejected(c)
  /\ conns' = [conns EXCEPT ![c].phase = "closing", ![c].settled = TRUE, ![c].timed = FALSE]
  /\ UNCHANGED <<dials, active, count, strikes, destroyed, slow>>

(* The first timeout of a connection is only counted: the socket stays. *)
HandshakeTimeout(c) ==
  /\ c \in DOMAIN conns /\ conns[c].timed /\ conns[c].phase \in {"dialing", "open"}
  /\ Rejected(c)
  /\ conns' = [conns EXCEPT ![c].timed = FALSE, ![c].settled = TRUE]
  /\ slow' = IF conns[c].settled THEN slow ELSE slow \union {IpOf[conns[c].key]}
  /\ UNCHANGED <<dials, active, count, strikes, destroyed>>

HandshakeDone(c) ==
  /\ c \in DOMAIN conns /\ conns[c].phase = "open" /\ Quiet
  /\ conns' = [conns EXCEPT ![c].phase = IF destroyed THEN "closing" ELSE "up",
                            ![c].timed = FALSE]
  /\ active' = IF destroyed THEN active ELSE Put(active, conns[c].key, c)
  /\ UNCHANGED <<dials, slots, count, failures, timers, strikes, destroyed,
                 slow>>

(* A bad handshake, or a bad piece (downloadManager): a strike for ip:port. *)
Struck(k) == strikes' = IF Banned(k) THEN strikes ELSE [strikes EXCEPT ![k] = @ + 1]
HandshakeBad(c) ==
  /\ c \in DOMAIN conns /\ conns[c].phase = "open"
  /\ Struck(conns[c].key)
  /\ conns' = [conns EXCEPT ![c].phase = "closing", ![c].timed = FALSE]
  /\ UNCHANGED <<dials, active, slots, count, failures, timers, destroyed,
                 slow>>
BadPiece(c) ==
  /\ c \in DOMAIN conns /\ conns[c].phase = "up" /\ ~destroyed
  /\ ~Banned(conns[c].key) /\ Struck(conns[c].key)
  /\ UNCHANGED <<conns, dials, active, slots, count, failures, timers,
                 destroyed, slow>>
BanExpires(k) ==
  /\ Banned(k)
  /\ strikes' = [strikes EXCEPT ![k] = 0]
  /\ UNCHANGED <<conns, dials, active, slots, count, failures, timers,
                 destroyed, slow>>

(* handleMessage of a bitfield, and of a HAVE for a piece it lacked (the bitfield of
   the connection stays); also for a connection that is no longer active. *)
Bitfield(c) ==
  /\ c \in DOMAIN conns /\ conns[c].phase = "up" /\ ~conns[c].told
  /\ conns' = [conns EXCEPT ![c].told = TRUE, ![c].bit = PieceOf[conns[c].key]]
  /\ count' = IF destroyed THEN count ELSE count + One(PieceOf[conns[c].key])
  /\ UNCHANGED <<dials, active, slots, failures, timers, strikes, destroyed,
                 slow>>
-----------------------------------------------------------------------------
(* handleClose: it goes by ip:port, whichever connection is active there. *)
CloseOfDialled(c) ==                                             \* mutant
  LET k == conns[c].key
      mine == k \in DOMAIN active
  IN  /\ c \in DOMAIN conns /\ conns[c].phase \in {"open", "up", "closing"}
      /\ conns' = Dropped(conns, {c})
      /\ count' = IF ~destroyed THEN count - One(conns[c].bit /\ count > 0) ELSE count
      /\ active' = Dropped(active, {k})
      /\ IF mine /\ ~destroyed THEN FreeSlot(k) ELSE UNCHANGED slots
      /\ IF mine /\ failures[k] \in 0..(MaxFailures - 1) THEN QueueReconnection(k) ELSE UNCHANGED timers
      /\ UNCHANGED <<dials, failures, strikes, destroyed, slow>>
SocketCloses(c) ==
  LET k == conns[c].key
      mine == k \in DOMAIN active
  IN  /\ c \in DOMAIN conns /\ conns[c].phase \in {"open", "up", "closing"}
      /\ conns' = Dropped(conns, {c})
      /\ count' = IF mine /\ ~destroyed THEN count - One(conns[c].bit /\ count > 0) ELSE count
      /\ active' = Dropped(active, {k})
      /\ IF mine /\ ~destroyed THEN FreeSlot(k) ELSE UNCHANGED slots
      /\ IF mine /\ failures[k] \in 0..(MaxFailures - 1) THEN QueueReconnection(k) ELSE UNCHANGED timers
      /\ UNCHANGED <<dials, failures, strikes, destroyed, slow>>

(* disconnect: the slot of the ip is not given back. *)
Disconnect(k) ==
  /\ k \in DOMAIN active
  /\ conns' = [conns EXCEPT ![active[k]].phase = "closing"]
  /\ active' = Dropped(active, {k})
  /\ count' = count - One(conns[active[k]].bit /\ count > 0)
  /\ UNCHANGED <<dials, slots, failures, timers, strikes, destroyed, slow>>

PoolDestroy ==
  /\ ~destroyed /\ destroyed' = TRUE
  /\ conns' = [c \in DOMAIN conns |->
       IF \E k \in DOMAIN active : active[k] = c THEN [conns[c] EXCEPT !.phase = "closing"]
       ELSE conns[c]]
  /\ active' = [k \in {} |-> 0] /\ count' = 0 /\ timers' = {}
  /\ slots' = [i \in Ip |-> 0] /\ failures' = [k \in Peer |-> -1]
  /\ strikes' = [k \in Peer |-> 0]
  /\ UNCHANGED <<dials, slow>>

PoolNext ==
  \/ \E k \in Peer : ConnectToPeers(k) \/ Reconnect(k) \/ BanExpires(k) \/ Disconnect(k)
  \/ PoolDestroy
  \/ \E c \in Conn :
       \/ SocketConnects(c) \/ DialFails(c) \/ HandshakeTimeout(c) \/ HandshakeDone(c)
       \/ HandshakeBad(c) \/ BadPiece(c) \/ Bitfield(c) \/ SocketCloses(c)

PoolSpec == PoolInit /\ [][PoolNext]_poolVars
-----------------------------------------------------------------------------
(* Type invariant. *)
PoolTypeOK ==
  /\ DOMAIN conns \subseteq 1..dials /\ \A c \in DOMAIN conns : conns[c] \in Connection
  /\ DOMAIN active \subseteq Peer
  /\ \A k \in DOMAIN active : active[k] \in DOMAIN conns /\ conns[active[k]].key = k
  /\ slots \in [Ip -> 0..MaxDials] /\ count \in 0..MaxDials
  /\ failures \in [Peer -> -1..MaxFailures] /\ timers \subseteq Peer
  /\ strikes \in [Peer -> 0..MaxStrikes]
  /\ destroyed \in BOOLEAN /\ slow \subseteq Ip /\ dials \in 0..MaxDials

(* A piece that an active connection has in its bitfield counts at least that often
   in pieceAvailability: a second connection of a peer, a close that finds another
   connection in its place or a disconnect never make a piece that is there look
   unavailable (then it would not be asked for). *)
AvailabilityCovers ==
  count >= Cardinality({k \in DOMAIN active : conns[active[k]].bit})

(* No more connections of an ip are active than it may have slots, whatever was
   dialled twice, closed late or given back too often, unless a dial outlived its
   handshake timeout (it gives its slot back then and may still connect). *)
ActivePerIp ==
  \A i \in Ip \ slow :
    Cardinality({k \in DOMAIN active : IpOf[k] = i}) <= MaxPerIp

(* The two counts that decide whom to ask and whom to dial cover what they count. *)
PoolCountsHold == AvailabilityCovers /\ ActivePerIp
=============================================================================
