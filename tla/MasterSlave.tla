---------------------------- MODULE MasterSlave ----------------------------
(***************************************************************************)
(* distributed_systems/replication/master_slave.cpp: clients that write at *)
(* the master, the queue all slaves share and the slaves' threads, until   *)
(* MasterNode is destroyed.  A write is a number; a store is the sequence  *)
(* of the writes it got, of which the last one to a key is read back.      *)
(***************************************************************************)
EXTENDS Integers, Sequences

CONSTANTS NSlaves,      \* slaves are 1 .. NSlaves, in the order of the vector
          MsWriter,     \* client threads
          MaxWrites     \* bound: writes

VARIABLES msStore,      \* the master's store
          msWriting,    \* client -> its write that is stored and not pushed, or 0
          msMessages,   \* the queue
          msPushed,     \* everything ever pushed, in that order
          msSlave,      \* slave -> [pc, msg, store]
          msStopped     \* slaves stopSlaves has told to stop, from 1 up

msVars == <<msStore, msWriting, msMessages, msPushed, msSlave, msStopped>>

MsInit ==
  /\ msStore = <<>> /\ msWriting = [w \in MsWriter |-> 0]
  /\ msMessages = <<>> /\ msPushed = <<>> /\ msStopped = 0
  /\ msSlave = [s \in 1 .. NSlaves |-> [pc |-> "loop", msg |-> 0, store |-> <<>>]]

-----------------------------------------------------------------------------
\* MasterNode::write stores the value under the store's mutex ...
MasterWrite(w) ==
  /\ msWriting[w] = 0 /\ Len(msStore) < MaxWrites
  /\ msStore' = Append(msStore, Len(msStore) + 1)
  /\ msWriting' = [msWriting EXCEPT ![w] = Len(msStore) + 1]
  /\ UNCHANGED <<msMessages, msPushed, msSlave, msStopped>>

\* ... and pushes the message under the queue's: other writers come between.
push(w) ==
  /\ msWriting[w] # 0
  /\ msMessages' = Append(msMessages, msWriting[w])
  /\ msPushed' = Append(msPushed, msWriting[w])
  /\ msWriting' = [msWriting EXCEPT ![w] = 0]
  /\ UNCHANGED <<msStore, msSlave, msStopped>>

stopSlaves ==
  /\ msStopped < NSlaves
  /\ msStopped' = msStopped + 1
  /\ UNCHANGED <<msStore, msWriting, msMessages, msPushed, msSlave>>

Goto(s, l) == msSlave' = [msSlave EXCEPT ![s].pc = l]
running(s) == s > msStopped

EndWhenEmpty == "ended"
AfterEmpty == "loop"
Back(q) == <<q[Len(q)], SubSeq(q, 1, Len(q) - 1)>>
Front(q) == <<Head(q), Tail(q)>>

\* The loop of a slave: running, empty(), pop(), which waits for a message in
\* case another slave was faster, and the write to its own store.
replicate(s) ==
  \/ /\ msSlave[s].pc = "loop"
     /\ Goto(s, IF running(s) THEN "empty" ELSE "ended")
     /\ UNCHANGED msMessages
  \/ /\ msSlave[s].pc = "empty"
     /\ Goto(s, IF msMessages = <<>> THEN AfterEmpty ELSE "pop")
     /\ UNCHANGED msMessages
  \/ /\ msSlave[s].pc = "pop" /\ msMessages # <<>>
     /\ msSlave' = [msSlave EXCEPT ![s].pc = "write", ![s].msg = Front(msMessages)[1]]
     /\ msMessages' = Front(msMessages)[2]
  \/ /\ msSlave[s].pc = "write"
     /\ msSlave' = [msSlave EXCEPT ![s].pc = "loop", ![s].msg = 0,
                                   ![s].store = Append(@, msSlave[s].msg)]
     /\ UNCHANGED msMessages

SlaveStep(s) == replicate(s) /\ UNCHANGED <<msStore, msWriting, msPushed, msStopped>>

MsNext ==
  \/ \E w \in MsWriter : MasterWrite(w) \/ push(w)
  \/ stopSlaves
  \/ \E s \in 1 .. NSlaves : SlaveStep(s)

MsSpec == MsInit /\ [][MsNext]_msVars

-----------------------------------------------------------------------------
Stored(store) == {store[i] : i \in DOMAIN store}

\* The slaves that have a write, and its place among the writes pushed.
Holders(m) == {s \in 1 .. NSlaves : msSlave[s].msg = m \/ m \in Stored(msSlave[s].store)}
PushedAt(m) == CHOOSE i \in DOMAIN msPushed : msPushed[i] = m

\* No write that was pushed is lost between the queue and the slaves that compete
\* for it: it is queued or some slave has it.  A slave applies what it gets in
\* the order of the pushes, and nothing twice.  (Which slaves get it is another
\* matter: see SlavesHaveData.)
MessagesKept ==
  /\ \A i \in DOMAIN msPushed : msPushed[i] \in Stored(msMessages) \/ Holders(msPushed[i]) # {}
  /\ \A s \in 1 .. NSlaves : LET got == msSlave[s].store
                                        \o (IF msSlave[s].msg = 0 THEN <<>> ELSE <<msSlave[s].msg>>)
                             IN  \A i, j \in DOMAIN got : i < j => PushedAt(got[i]) < PushedAt(got[j])

\* "replication to slaves", "one master and multiple read replicas": after "some
\* time for replication", with no write and no message under way and no slave
\* stopped, a client reads from each slave what the master has.
SlavesHaveData ==
  /\ \A w \in MsWriter : msWriting[w] = 0
  /\ msMessages = <<>> /\ msStopped = 0
  /\ \A s \in 1 .. NSlaves : msSlave[s].msg = 0
  => \A s \in 1 .. NSlaves : Stored(msSlave[s].store) = Stored(msStore)

\* A queued message is written to a slave's store, unless the slaves are being
\* stopped: none waits for ever behind a slave that lost the race for another.
MessageApplied ==
  \A m \in 1 .. MaxWrites :
    m \in Stored(msMessages) ~> (msStopped > 0 \/ \E s \in 1 .. NSlaves : m \in Stored(msSlave[s].store))
=============================================================================
