---------------------------- MODULE MultiMaster ----------------------------
(***************************************************************************)
(* distributed_systems/replication/multi_master.cpp.  writeData holds its  *)
(* node's dataMutex while it calls replicateData at the peers one after    *)
(* the other, and that locks the peer's.  The clock is the system's, in    *)
(* seconds: it does not go back, and writes may share a second.            *)
(***************************************************************************)
EXTENDS Integers, Sequences

CONSTANTS Master, MmKey,
          Peers,        \* node -> its peers, in the order they were added
          MaxClock,     \* bound: seconds
          MaxMmWrites   \* bound: writes; the n-th one writes the value n

VARIABLES dataStore,    \* node -> key -> [value, timestamp] of the keys present
          mmCall,       \* node -> the writeData that holds its mutex: its key, its
                        \* entry, and the peer it is at; 0 for none
          mmClock,
          mmWritten     \* every write: [key, timestamp]

mmVars == <<dataStore, mmCall, mmClock, mmWritten>>

NoCall == [key |-> 0, entry |-> 0, at |-> 0]

MmInit ==
  /\ dataStore = [n \in Master |-> <<>>]
  /\ mmCall = [n \in Master |-> NoCall]
  /\ mmClock = 1 /\ mmWritten = <<>>

Locked(n) == mmCall[n].at # 0
Store(n, k, e) ==
  [dataStore EXCEPT ![n] = [x \in DOMAIN @ \cup {k} |-> IF x = k THEN e ELSE @[x]]]

-----------------------------------------------------------------------------
\* writeData locks the mutex, takes the time and stores the value; without peers
\* it returns at once.
writeData(n, k) ==
  /\ ~Locked(n) /\ Len(mmWritten) < MaxMmWrites
  /\ LET e == [value |-> Len(mmWritten) + 1, timestamp |-> mmClock]
     IN  /\ dataStore' = Store(n, k, e)
         /\ mmWritten' = Append(mmWritten, [key |-> k, timestamp |-> mmClock])
         /\ mmCall' = IF Peers[n] = <<>> THEN mmCall
                      ELSE [mmCall EXCEPT ![n] = [key |-> k, entry |-> e, at |-> 1]]
  /\ UNCHANGED mmClock

Older(old, new) == new.timestamp < old.timestamp
Newer(old, new) == old.timestamp < new.timestamp
StillLocked(n) == [mmCall[n] EXCEPT !.at = Len(Peers[n])]
Returned(n) == NoCall

\* replicateData at the next peer, once its mutex is free; after the last one
\* writeData returns and its lock goes.
replicateData(n) ==
  /\ Locked(n)
  /\ LET call == mmCall[n]
         p == Peers[n][call.at]
     IN  /\ ~Locked(p)
         /\ dataStore' = IF call.key \in DOMAIN dataStore[p]
                            /\ ~Newer(dataStore[p][call.key], call.entry)
                         THEN dataStore ELSE Store(p, call.key, call.entry)
         /\ mmCall' = [mmCall EXCEPT ![n] = IF call.at < Len(Peers[n])
                                            THEN [call EXCEPT !.at = @ + 1] ELSE Returned(n)]
  /\ UNCHANGED <<mmClock, mmWritten>>

Tick ==
  /\ mmClock < MaxClock
  /\ mmClock' = mmClock + 1
  /\ UNCHANGED <<dataStore, mmCall, mmWritten>>

MmNext ==
  \/ \E n \in Master : (\E k \in MmKey : writeData(n, k)) \/ replicateData(n)
  \/ Tick

-----------------------------------------------------------------------------
\* When no write is under way all nodes have the same keys with the same
\* timestamps, and the same value for a key unless it was written twice in the
\* second of that timestamp (then nodes may keep different ones).
QuietNodesAgree ==
  (\A n \in Master : ~Locked(n)) =>
    \A n, o \in Master :
      /\ DOMAIN dataStore[n] = DOMAIN dataStore[o]
      /\ \A k \in DOMAIN dataStore[n] :
           LET a == dataStore[n][k]
               tied == {i \in DOMAIN mmWritten : mmWritten[i] = [key |-> k, timestamp |-> a.timestamp]}
           IN  /\ a.timestamp = dataStore[o][k].timestamp
               /\ a = dataStore[o][k] \/ \E i, j \in tied : i # j

\* Nodes whose writeData each wait for the mutex of another of them.
Cycle(S) == S # {} /\ \A n \in S : Locked(n) /\ Peers[n][mmCall[n].at] \in S

\* Every write returns, unless nodes that write at the same time wait for each
\* other in a circle: no other order of writes, replications and reads blocks.
WriteReturns ==
  \A n \in Master : Locked(n) ~> (~Locked(n) \/ \E S \in SUBSET Master : Cycle(S))
=============================================================================
