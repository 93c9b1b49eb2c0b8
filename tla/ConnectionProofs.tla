-------------------------- MODULE ConnectionProofs --------------------------
(***************************************************************************)
(* The safety of Connection, for any number of bytes, any burst, blocking  *)
(* sockets or not, and any set of mishaps.  IInv (see Connection) is shown *)
(* to hold at first and to be kept by every action; the properties of the  *)
(* runs follow from it.                                                    *)
(***************************************************************************)
EXTENDS Connection, TLAPS

\* What is taken out of the read buffer cannot break a bound on its length.
LEMMA TakingKeepsSum ==
    ASSUME NEW small \in Nat, NEW large \in Nat, NEW other \in Nat, NEW bound \in Nat,
           small <= large, large + other <= bound
    PROVE  small + other <= bound
  OBVIOUS


\* The invariant is kept when the creator calls connect().
LEMMA KeepsConnect == ASSUME IInv, Connect PROVE IInv'
<1>1. TypeOK'
  BY ConnectionAssumption DEF IInv, TypeOK, Counts, Connect, state, data,
         work, peer
<1>2. Counts'
  BY ConnectionAssumption DEF IInv, TypeOK, Counts, Making, Connect, state,
         data, work, peer
<1>3. Making'
  BY ConnectionAssumption DEF IInv, TypeOK, Making, Failing, Calls, Connect,
         state, data, work, peer
<1>4. Serving'
  BY ConnectionAssumption DEF IInv, TypeOK, Making, Serving, Failing, Calls,
         Connect, state, data, work, peer
<1>5. Failing'
  BY ConnectionAssumption DEF IInv, TypeOK, Counts, Making, Serving, Failing,
         Calls, Connect, state, data, work, peer
<1>6. KeptUnlessShort'
  BY ConnectionAssumption DEF IInv, TypeOK, Counts, KeptUnlessShort,
         WrittenIsKept, Connect, state, data, work, peer
<1>7. SentThisCall'
  BY ConnectionAssumption DEF IInv, TypeOK, Serving, Counts, SentThisCall,
         Calls, Connect, state, data, work, peer
<1>8. NewsOfThisCall'
  BY ConnectionAssumption DEF IInv, TypeOK, Serving, Failing, NewsOfThisCall,
         Calls, Connect, state, data, work, peer
<1>9. EndReached'
  BY ConnectionAssumption DEF IInv, TypeOK, Making, Serving, Failing,
         EndReached, Calls, Connect, state, data, work, peer
<1>10. AttemptOver'
  BY ConnectionAssumption DEF IInv, TypeOK, Making, Serving, Failing,
         EndReached, AttemptOver, Calls, Connect, state, data, work, peer
<1>11. Introduced'
  BY ConnectionAssumption DEF IInv, TypeOK, Making, Serving, Failing,
         Introduced, Calls, Connect, state, data, work, peer
<1>12. IntroducedFirst'
  BY ConnectionAssumption DEF IInv, TypeOK, Making, Serving, Introduced,
         IntroducedFirst, Connect, state, data, work, peer
<1>. QED  BY <1>1, <1>2, <1>3, <1>4, <1>5, <1>6, <1>7, <1>8, <1>9, <1>10, <1>11, <1>12 DEF IInv

\* The invariant is kept when the creator sets the mode.
LEMMA KeepsConnecting == ASSUME IInv, Connecting PROVE IInv'
<1>1. TypeOK'
  BY ConnectionAssumption DEF IInv, TypeOK, Counts, Connecting, state, data,
         work, peer
<1>2. Counts'
  BY ConnectionAssumption DEF IInv, TypeOK, Counts, Making, Connecting, state,
         data, work, peer
<1>3. Making'
  BY ConnectionAssumption DEF IInv, TypeOK, Making, Failing, Calls,
         Connecting, state, data, work, peer
<1>4. Serving'
  BY ConnectionAssumption DEF IInv, TypeOK, Making, Serving, Failing, Calls,
         Connecting, state, data, work, peer
<1>5. Failing'
  BY ConnectionAssumption DEF IInv, TypeOK, Counts, Making, Serving, Failing,
         Calls, Connecting, state, data, work, peer
<1>6. KeptUnlessShort'
  BY ConnectionAssumption DEF IInv, TypeOK, Counts, KeptUnlessShort,
         WrittenIsKept, Connecting, state, data, work, peer
<1>7. SentThisCall'
  BY ConnectionAssumption DEF IInv, TypeOK, Serving, Counts, SentThisCall,
         Calls, Connecting, state, data, work, peer
<1>8. NewsOfThisCall'
  BY ConnectionAssumption DEF IInv, TypeOK, Serving, Failing, NewsOfThisCall,
         Calls, Connecting, state, data, work, peer
<1>9. EndReached'
  BY ConnectionAssumption DEF IInv, TypeOK, Making, Serving, Failing,
         EndReached, Calls, Connecting, state, data, work, peer
<1>10. AttemptOver'
  BY ConnectionAssumption DEF IInv, TypeOK, Making, Serving, Failing,
         EndReached, AttemptOver, Calls, Connecting, state, data, work, peer
<1>11. Introduced'
  BY ConnectionAssumption DEF IInv, TypeOK, Making, Serving, Failing,
         Introduced, Calls, Connecting, state, data, work, peer
<1>12. IntroducedFirst'
  BY ConnectionAssumption DEF IInv, TypeOK, Making, Serving, Introduced,
         IntroducedFirst, Connecting, state, data, work, peer
<1>. QED  BY <1>1, <1>2, <1>3, <1>4, <1>5, <1>6, <1>7, <1>8, <1>9, <1>10, <1>11, <1>12 DEF IInv

\* The invariant is kept when the listener tells of the new connection.
LEMMA KeepsAccepted == ASSUME IInv, Accepted PROVE IInv'
<1>1. TypeOK'
  BY ConnectionAssumption DEF IInv, TypeOK, Counts, Accepted, state, data,
         work, peer
<1>2. Counts'
  BY ConnectionAssumption DEF IInv, TypeOK, Counts, Making, Accepted, state,
         data, work, peer
<1>3. Making'
  BY ConnectionAssumption DEF IInv, TypeOK, Making, Failing, Calls, Accepted,
         state, data, work, peer
<1>4. Serving'
  BY ConnectionAssumption DEF IInv, TypeOK, Making, Serving, Failing, Calls,
         Accepted, state, data, work, peer
<1>5. Failing'
  BY ConnectionAssumption DEF IInv, TypeOK, Counts, Making, Serving, Failing,
         Calls, Accepted, state, data, work, peer
<1>6. KeptUnlessShort'
  BY ConnectionAssumption DEF IInv, TypeOK, Counts, KeptUnlessShort,
         WrittenIsKept, Accepted, state, data, work, peer
<1>7. SentThisCall'
  BY ConnectionAssumption DEF IInv, TypeOK, Serving, Counts, SentThisCall,
         Calls, Accepted, state, data, work, peer
<1>8. NewsOfThisCall'
  BY ConnectionAssumption DEF IInv, TypeOK, Serving, Failing, NewsOfThisCall,
         Calls, Accepted, state, data, work, peer
<1>9. EndReached'
  BY ConnectionAssumption DEF IInv, TypeOK, Making, Serving, Failing,
         EndReached, Calls, Accepted, state, data, work, peer
<1>10. AttemptOver'
  BY ConnectionAssumption DEF IInv, TypeOK, Making, Serving, Failing,
         EndReached, AttemptOver, Calls, Accepted, state, data, work, peer
<1>11. Introduced'
  BY ConnectionAssumption DEF IInv, TypeOK, Making, Serving, Failing,
         Introduced, Calls, Accepted, state, data, work, peer
<1>12. IntroducedFirst'
  BY ConnectionAssumption DEF IInv, TypeOK, Making, Serving, Introduced,
         IntroducedFirst, Accepted, state, data, work, peer
<1>. QED  BY <1>1, <1>2, <1>3, <1>4, <1>5, <1>6, <1>7, <1>8, <1>9, <1>10, <1>11, <1>12 DEF IInv

\* The invariant is kept when the application writes.
LEMMA KeepsWrite == ASSUME IInv, Write PROVE IInv'
<1>1. TypeOK'
  BY ConnectionAssumption DEF IInv, TypeOK, Counts, Write, Known, MayLock,
         Over, state, data, work, peer
<1>2. Counts'
  BY ConnectionAssumption DEF IInv, TypeOK, Counts, Making, Write, state,
         data, work, peer
<1>3. Making'
  BY ConnectionAssumption DEF IInv, TypeOK, Making, Failing, Calls, Write,
         Known, MayLock, Over, state, data, work, peer
<1>4. Serving'
  BY ConnectionAssumption DEF IInv, TypeOK, Making, Serving, Failing, Calls,
         Write, state, data, work, peer
<1>5. Failing'
  BY ConnectionAssumption DEF IInv, TypeOK, Counts, Making, Serving, Failing,
         Calls, Write, state, data, work, peer
<1>6. KeptUnlessShort'
  BY ConnectionAssumption DEF IInv, TypeOK, Counts, KeptUnlessShort,
         WrittenIsKept, Write, state, data, work, peer
<1>7. SentThisCall'
  BY ConnectionAssumption DEF IInv, TypeOK, Serving, Counts, SentThisCall,
         Calls, Write, state, data, work, peer
<1>8. NewsOfThisCall'
  BY ConnectionAssumption DEF IInv, TypeOK, Serving, Failing, NewsOfThisCall,
         Calls, Write, state, data, work, peer
<1>9. EndReached'
  BY ConnectionAssumption DEF IInv, TypeOK, Making, Serving, Failing,
         EndReached, Calls, Write, Known, MayLock, Over, state, data, work,
         peer
<1>10. AttemptOver'
  BY ConnectionAssumption DEF IInv, TypeOK, Making, Serving, Failing,
         EndReached, AttemptOver, Calls, Write, Known, MayLock, Over, state,
         data, work, peer
<1>11. Introduced'
  BY ConnectionAssumption DEF IInv, TypeOK, Making, Serving, Failing,
         Introduced, Calls, Write, Known, MayLock, Over, state, data, work,
         peer
<1>12. IntroducedFirst'
  BY ConnectionAssumption DEF IInv, TypeOK, Making, Serving, Introduced,
         IntroducedFirst, Write, Known, MayLock, Over, state, data, work, peer
<1>. QED  BY <1>1, <1>2, <1>3, <1>4, <1>5, <1>6, <1>7, <1>8, <1>9, <1>10, <1>11, <1>12 DEF IInv

\* The invariant is kept when the application reads.
LEMMA KeepsRead == ASSUME IInv, Read PROVE IInv'
<1>1. TypeOK'
  BY ConnectionAssumption DEF IInv, TypeOK, Counts, Read, Known, MayLock,
         Over, state, data, work, peer
<1>2. Counts'
  <2>1. rd' \in 0..rd - 1 /\ rd \in Nat /\ UNCHANGED <<sent, wr, written, arrived, came, sock>>
    BY ConnectionAssumption DEF IInv, TypeOK, Read, work, peer
  <2>2. rd \in Nat /\ rd' \in Nat /\ rd' <= rd
    BY <2>1
  <2>3. arrived \in Nat /\ came \in Nat
    BY ConnectionAssumption DEF IInv, TypeOK
  <2>4. rd + arrived <= came
    BY DEF IInv, Counts
  <2>5. rd' + arrived <= came
    BY <2>2, <2>3, <2>4, TakingKeepsSum
  <2>6. sent' = sent /\ wr' = wr /\ written' = written /\ arrived' = arrived /\ came' = came
        /\ sock' = sock
    BY <2>1
  <2>. QED  BY <2>5, <2>6 DEF IInv, Counts
<1>3. Making'
  BY ConnectionAssumption DEF IInv, TypeOK, Making, Failing, Calls, Read,
         Known, MayLock, Over, state, data, work, peer
<1>4. Serving'
  BY ConnectionAssumption DEF IInv, TypeOK, Making, Serving, Failing, Calls,
         Read, state, data, work, peer
<1>5. Failing'
  BY ConnectionAssumption DEF IInv, TypeOK, Counts, Making, Serving, Failing,
         Calls, Read, state, data, work, peer
<1>6. KeptUnlessShort'
  BY ConnectionAssumption DEF IInv, TypeOK, Counts, KeptUnlessShort,
         WrittenIsKept, Read, state, data, work, peer
<1>7. SentThisCall'
  BY ConnectionAssumption DEF IInv, TypeOK, Serving, Counts, SentThisCall,
         Calls, Read, state, data, work, peer
<1>8. NewsOfThisCall'
  BY ConnectionAssumption DEF IInv, TypeOK, Serving, Failing, NewsOfThisCall,
         Calls, Read, state, data, work, peer
<1>9. EndReached'
  BY ConnectionAssumption DEF IInv, TypeOK, Making, Serving, Failing,
         EndReached, Calls, Read, Known, MayLock, Over, state, data, work,
         peer
<1>10. AttemptOver'
  BY ConnectionAssumption DEF IInv, TypeOK, Making, Serving, Failing,
         EndReached, AttemptOver, Calls, Read, Known, MayLock, Over, state,
         data, work, peer
<1>11. Introduced'
  BY ConnectionAssumption DEF IInv, TypeOK, Making, Serving, Failing,
         Introduced, Calls, Read, Known, MayLock, Over, state, data, work,
         peer
<1>12. IntroducedFirst'
  BY ConnectionAssumption DEF IInv, TypeOK, Making, Serving, Introduced,
         IntroducedFirst, Read, Known, MayLock, Over, state, data, work, peer
<1>. QED  BY <1>1, <1>2, <1>3, <1>4, <1>5, <1>6, <1>7, <1>8, <1>9, <1>10, <1>11, <1>12 DEF IInv

\* The invariant is kept when the application cancels the connection.
LEMMA KeepsCancel == ASSUME IInv, Cancel PROVE IInv'
<1>1. TypeOK'
  BY ConnectionAssumption DEF IInv, TypeOK, Counts, Cancel, Known, state,
         data, work, peer
<1>2. Counts'
  BY ConnectionAssumption DEF IInv, TypeOK, Counts, Making, Cancel, state,
         data, work, peer
<1>3. Making'
  BY ConnectionAssumption DEF IInv, TypeOK, Making, Failing, Calls, Cancel,
         Known, state, data, work, peer
<1>4. Serving'
  BY ConnectionAssumption DEF IInv, TypeOK, Making, Serving, Failing, Calls,
         Cancel, state, data, work, peer
<1>5. Failing'
  BY ConnectionAssumption DEF IInv, TypeOK, Counts, Making, Serving, Failing,
         Calls, Cancel, state, data, work, peer
<1>6. KeptUnlessShort'
  BY ConnectionAssumption DEF IInv, TypeOK, Counts, KeptUnlessShort,
         WrittenIsKept, Cancel, state, data, work, peer
<1>7. SentThisCall'
  BY ConnectionAssumption DEF IInv, TypeOK, Serving, Counts, SentThisCall,
         Calls, Cancel, state, data, work, peer
<1>8. NewsOfThisCall'
  BY ConnectionAssumption DEF IInv, TypeOK, Serving, Failing, NewsOfThisCall,
         Calls, Cancel, state, data, work, peer
<1>9. EndReached'
  BY ConnectionAssumption DEF IInv, TypeOK, Making, Serving, Failing,
         EndReached, Calls, Cancel, Known, state, data, work, peer
<1>10. AttemptOver'
  BY ConnectionAssumption DEF IInv, TypeOK, Making, Serving, Failing,
         EndReached, AttemptOver, Calls, Cancel, Known, state, data, work,
         peer
<1>11. Introduced'
  BY ConnectionAssumption DEF IInv, TypeOK, Making, Serving, Failing,
         Introduced, Calls, Cancel, Known, state, data, work, peer
<1>12. IntroducedFirst'
  BY ConnectionAssumption DEF IInv, TypeOK, Making, Serving, Introduced,
         IntroducedFirst, Cancel, Known, state, data, work, peer
<1>. QED  BY <1>1, <1>2, <1>3, <1>4, <1>5, <1>6, <1>7, <1>8, <1>9, <1>10, <1>11, <1>12 DEF IInv

\* The invariant is kept when the peer answers.
LEMMA KeepsAnswer == ASSUME IInv, Answer PROVE IInv'
<1>1. TypeOK'
  BY ConnectionAssumption DEF IInv, TypeOK, Counts, Answer, state, data, work,
         peer
<1>2. Counts'
  BY ConnectionAssumption DEF IInv, TypeOK, Counts, Making, Answer, state,
         data, work, peer
<1>3. Making'
  BY ConnectionAssumption DEF IInv, TypeOK, Making, Failing, Calls, Answer,
         state, data, work, peer
<1>4. Serving'
  BY ConnectionAssumption DEF IInv, TypeOK, Making, Serving, Failing, Calls,
         Answer, state, data, work, peer
<1>5. Failing'
  BY ConnectionAssumption DEF IInv, TypeOK, Counts, Making, Serving, Failing,
         Calls, Answer, state, data, work, peer
<1>6. KeptUnlessShort'
  BY ConnectionAssumption DEF IInv, TypeOK, Counts, KeptUnlessShort,
         WrittenIsKept, Answer, state, data, work, peer
<1>7. SentThisCall'
  BY ConnectionAssumption DEF IInv, TypeOK, Serving, Counts, SentThisCall,
         Calls, Answer, state, data, work, peer
<1>8. NewsOfThisCall'
  BY ConnectionAssumption DEF IInv, TypeOK, Serving, Failing, NewsOfThisCall,
         Calls, Answer, state, data, work, peer
<1>9. EndReached'
  BY ConnectionAssumption DEF IInv, TypeOK, Making, Serving, Failing,
         EndReached, Calls, Answer, state, data, work, peer
<1>10. AttemptOver'
  BY ConnectionAssumption DEF IInv, TypeOK, Making, Serving, Failing,
         EndReached, AttemptOver, Calls, Answer, state, data, work, peer
<1>11. Introduced'
  BY ConnectionAssumption DEF IInv, TypeOK, Making, Serving, Failing,
         Introduced, Calls, Answer, state, data, work, peer
<1>12. IntroducedFirst'
  BY ConnectionAssumption DEF IInv, TypeOK, Making, Serving, Introduced,
         IntroducedFirst, Answer, state, data, work, peer
<1>. QED  BY <1>1, <1>2, <1>3, <1>4, <1>5, <1>6, <1>7, <1>8, <1>9, <1>10, <1>11, <1>12 DEF IInv

\* The invariant is kept when data arrives.
LEMMA KeepsArrive == ASSUME IInv, Arrive PROVE IInv'
<1>1. TypeOK'
  BY ConnectionAssumption DEF IInv, TypeOK, Counts, Arrive, state, data, work,
         peer
<1>2. Counts'
  BY ConnectionAssumption DEF IInv, TypeOK, Counts, Making, Arrive, state,
         data, work, peer
<1>3. Making'
  BY ConnectionAssumption DEF IInv, TypeOK, Making, Failing, Calls, Arrive,
         state, data, work, peer
<1>4. Serving'
  BY ConnectionAssumption DEF IInv, TypeOK, Making, Serving, Failing, Calls,
         Arrive, state, data, work, peer
<1>5. Failing'
  BY ConnectionAssumption DEF IInv, TypeOK, Counts, Making, Serving, Failing,
         Calls, Arrive, state, data, work, peer
<1>6. KeptUnlessShort'
  BY ConnectionAssumption DEF IInv, TypeOK, Counts, KeptUnlessShort,
         WrittenIsKept, Arrive, state, data, work, peer
<1>7. SentThisCall'
  BY ConnectionAssumption DEF IInv, TypeOK, Serving, Counts, SentThisCall,
         Calls, Arrive, state, data, work, peer
<1>8. NewsOfThisCall'
  BY ConnectionAssumption DEF IInv, TypeOK, Serving, Failing, NewsOfThisCall,
         Calls, Arrive, state, data, work, peer
<1>9. EndReached'
  BY ConnectionAssumption DEF IInv, TypeOK, Making, Serving, Failing,
         EndReached, Calls, Arrive, state, data, work, peer
<1>10. AttemptOver'
  BY ConnectionAssumption DEF IInv, TypeOK, Making, Serving, Failing,
         EndReached, AttemptOver, Calls, Arrive, state, data, work, peer
<1>11. Introduced'
  BY ConnectionAssumption DEF IInv, TypeOK, Making, Serving, Failing,
         Introduced, Calls, Arrive, state, data, work, peer
<1>12. IntroducedFirst'
  BY ConnectionAssumption DEF IInv, TypeOK, Making, Serving, Introduced,
         IntroducedFirst, Arrive, state, data, work, peer
<1>. QED  BY <1>1, <1>2, <1>3, <1>4, <1>5, <1>6, <1>7, <1>8, <1>9, <1>10, <1>11, <1>12 DEF IInv

\* The invariant is kept when the peer closes or resets the connection.
LEMMA KeepsHangUp == ASSUME IInv, HangUp PROVE IInv'
<1>1. TypeOK'
  <2>1. ended' \in {"open", "closed", "reset"} /\ happened' \subseteq Mishaps
    BY DEF IInv, TypeOK, HangUp
  <2>2. UNCHANGED <<state, data, work, sock, arrived, came, heard>>
    BY DEF HangUp
  <2>. QED  BY <2>1, <2>2 DEF IInv, TypeOK, state, data, work
<1>2. Counts'
  BY ConnectionAssumption DEF IInv, TypeOK, Counts, Making, HangUp, state,
         data, work, peer
<1>3. Making'
  BY ConnectionAssumption DEF IInv, TypeOK, Making, Failing, Calls, HangUp,
         state, data, work, peer
<1>4. Serving'
  BY ConnectionAssumption DEF IInv, TypeOK, Making, Serving, Failing, Calls,
         HangUp, state, data, work, peer
<1>5. Failing'
  BY ConnectionAssumption DEF IInv, TypeOK, Counts, Making, Serving, Failing,
         Calls, HangUp, state, data, work, peer
<1>6. KeptUnlessShort'
  BY ConnectionAssumption DEF IInv, TypeOK, Counts, KeptUnlessShort,
         WrittenIsKept, HangUp, state, data, work, peer
<1>7. SentThisCall'
  BY ConnectionAssumption DEF IInv, TypeOK, Serving, Counts, SentThisCall,
         Calls, HangUp, state, data, work, peer
<1>8. NewsOfThisCall'
  BY ConnectionAssumption DEF IInv, TypeOK, Serving, Failing, NewsOfThisCall,
         Calls, HangUp, state, data, work, peer
<1>9. EndReached'
  BY ConnectionAssumption DEF IInv, TypeOK, Making, Serving, Failing,
         EndReached, Calls, HangUp, state, data, work, peer
<1>10. AttemptOver'
  BY ConnectionAssumption DEF IInv, TypeOK, Making, Serving, Failing,
         EndReached, AttemptOver, Calls, HangUp, state, data, work, peer
<1>11. Introduced'
  BY ConnectionAssumption DEF IInv, TypeOK, Making, Serving, Failing,
         Introduced, Calls, HangUp, state, data, work, peer
<1>12. IntroducedFirst'
  BY ConnectionAssumption DEF IInv, TypeOK, Making, Serving, Introduced,
         IntroducedFirst, HangUp, state, data, work, peer
<1>. QED  BY <1>1, <1>2, <1>3, <1>4, <1>5, <1>6, <1>7, <1>8, <1>9, <1>10, <1>11, <1>12 DEF IInv

\* The invariant is kept when a worker picks the connection.
LEMMA KeepsPick == ASSUME IInv, Pick PROVE IInv'
<1>1. TypeOK'
  BY ConnectionAssumption DEF IInv, TypeOK, Counts, Pick, state, data, work,
         peer
<1>2. Counts'
  BY ConnectionAssumption DEF IInv, TypeOK, Counts, Making, Pick, state, data,
         work, peer
<1>3. Making'
  BY ConnectionAssumption DEF IInv, TypeOK, Making, Failing, Calls, Pick,
         state, data, work, peer
<1>4. Serving'
  BY ConnectionAssumption DEF IInv, TypeOK, Making, Serving, Failing, Calls,
         Pick, state, data, work, peer
<1>5. Failing'
  BY ConnectionAssumption DEF IInv, TypeOK, Counts, Making, Serving, Failing,
         Calls, Pick, state, data, work, peer
<1>6. KeptUnlessShort'
  BY ConnectionAssumption DEF IInv, TypeOK, Counts, KeptUnlessShort,
         WrittenIsKept, Pick, state, data, work, peer
<1>7. SentThisCall'
  BY ConnectionAssumption DEF IInv, TypeOK, Serving, Counts, SentThisCall,
         Calls, Pick, state, data, work, peer
<1>8. NewsOfThisCall'
  BY ConnectionAssumption DEF IInv, TypeOK, Serving, Failing, NewsOfThisCall,
         Calls, Pick, state, data, work, peer
<1>9. EndReached'
  BY ConnectionAssumption DEF IInv, TypeOK, Making, Serving, Failing,
         EndReached, Calls, Pick, state, data, work, peer
<1>10. AttemptOver'
  BY ConnectionAssumption DEF IInv, TypeOK, Making, Serving, Failing,
         EndReached, AttemptOver, Calls, Pick, state, data, work, peer
<1>11. Introduced'
  BY ConnectionAssumption DEF IInv, TypeOK, Making, Serving, Failing,
         Introduced, Calls, Pick, state, data, work, peer
<1>12. IntroducedFirst'
  BY ConnectionAssumption DEF IInv, TypeOK, Making, Serving, Introduced,
         IntroducedFirst, Pick, state, data, work, peer
<1>. QED  BY <1>1, <1>2, <1>3, <1>4, <1>5, <1>6, <1>7, <1>8, <1>9, <1>10, <1>11, <1>12 DEF IInv

\* The invariant is kept when the worker makes its descriptor sets.
LEMMA KeepsPulse == ASSUME IInv, Pulse PROVE IInv'
<1>1. TypeOK'
  BY ConnectionAssumption DEF IInv, TypeOK, Counts, Pulse, Ask, NeedToWrite,
         state, data, work, peer
<1>2. Counts'
  BY ConnectionAssumption DEF IInv, TypeOK, Counts, Making, Pulse, Ask,
         NeedToWrite, state, data, work, peer
<1>3. Making'
  BY ConnectionAssumption DEF IInv, TypeOK, Making, Failing, Calls, Pulse,
         Ask, NeedToWrite, state, data, work, peer
<1>4. Serving'
  BY ConnectionAssumption DEF IInv, TypeOK, Making, Serving, Failing, Calls,
         Pulse, Ask, NeedToWrite, state, data, work, peer
<1>5. Failing'
  BY ConnectionAssumption DEF IInv, TypeOK, Counts, Making, Serving, Failing,
         Calls, Pulse, Ask, NeedToWrite, state, data, work, peer
<1>6. KeptUnlessShort'
  BY ConnectionAssumption DEF IInv, TypeOK, Counts, KeptUnlessShort,
         WrittenIsKept, Pulse, Ask, NeedToWrite, state, data, work, peer
<1>7. SentThisCall'
  BY ConnectionAssumption DEF IInv, TypeOK, Serving, Counts, SentThisCall,
         Calls, Pulse, Ask, NeedToWrite, state, data, work, peer
<1>8. NewsOfThisCall'
  BY ConnectionAssumption DEF IInv, TypeOK, Serving, Failing, NewsOfThisCall,
         Calls, Pulse, Ask, NeedToWrite, state, data, work, peer
<1>9. EndReached'
  BY ConnectionAssumption DEF IInv, TypeOK, Making, Serving, Failing,
         EndReached, Calls, Pulse, Ask, NeedToWrite, state, data, work, peer
<1>10. AttemptOver'
  BY ConnectionAssumption DEF IInv, TypeOK, Making, Serving, Failing,
         EndReached, AttemptOver, Calls, Pulse, Ask, NeedToWrite, state, data,
         work, peer
<1>11. Introduced'
  BY ConnectionAssumption DEF IInv, TypeOK, Making, Serving, Failing,
         Introduced, Calls, Pulse, Ask, NeedToWrite, state, data, work, peer
<1>12. IntroducedFirst'
  BY ConnectionAssumption DEF IInv, TypeOK, Making, Serving, Introduced,
         IntroducedFirst, Pulse, Ask, NeedToWrite, state, data, work, peer
<1>. QED  BY <1>1, <1>2, <1>3, <1>4, <1>5, <1>6, <1>7, <1>8, <1>9, <1>10, <1>11, <1>12 DEF IInv

\* The invariant is kept when the attempt to connect times out.
LEMMA KeepsTimeOut == ASSUME IInv, TimeOut PROVE IInv'
<1>1. TypeOK'
  BY ConnectionAssumption DEF IInv, TypeOK, Counts, TimeOut, Ask, NeedToWrite,
         state, data, work, peer
<1>2. Counts'
  BY ConnectionAssumption DEF IInv, TypeOK, Counts, Making, TimeOut, Ask,
         NeedToWrite, state, data, work, peer
<1>3. Making'
  BY ConnectionAssumption DEF IInv, TypeOK, Making, Failing, Calls, TimeOut,
         Ask, NeedToWrite, state, data, work, peer
<1>4. Serving'
  BY ConnectionAssumption DEF IInv, TypeOK, Making, Serving, Failing, Calls,
         TimeOut, Ask, NeedToWrite, state, data, work, peer
<1>5. Failing'
  BY ConnectionAssumption DEF IInv, TypeOK, Counts, Making, Serving, Failing,
         Calls, TimeOut, Ask, NeedToWrite, state, data, work, peer
<1>6. KeptUnlessShort'
  BY ConnectionAssumption DEF IInv, TypeOK, Counts, KeptUnlessShort,
         WrittenIsKept, TimeOut, Ask, NeedToWrite, state, data, work, peer
<1>7. SentThisCall'
  BY ConnectionAssumption DEF IInv, TypeOK, Serving, Counts, SentThisCall,
         Calls, TimeOut, Ask, NeedToWrite, state, data, work, peer
<1>8. NewsOfThisCall'
  BY ConnectionAssumption DEF IInv, TypeOK, Serving, Failing, NewsOfThisCall,
         Calls, TimeOut, Ask, NeedToWrite, state, data, work, peer
<1>9. EndReached'
  BY ConnectionAssumption DEF IInv, TypeOK, Making, Serving, Failing,
         EndReached, Calls, TimeOut, Ask, NeedToWrite, state, data, work, peer
<1>10. AttemptOver'
  BY ConnectionAssumption DEF IInv, TypeOK, Making, Serving, Failing,
         EndReached, AttemptOver, Calls, TimeOut, Ask, NeedToWrite, state,
         data, work, peer
<1>11. Introduced'
  BY ConnectionAssumption DEF IInv, TypeOK, Making, Serving, Failing,
         Introduced, Calls, TimeOut, Ask, NeedToWrite, state, data, work, peer
<1>12. IntroducedFirst'
  BY ConnectionAssumption DEF IInv, TypeOK, Making, Serving, Introduced,
         IntroducedFirst, TimeOut, Ask, NeedToWrite, state, data, work, peer
<1>. QED  BY <1>1, <1>2, <1>3, <1>4, <1>5, <1>6, <1>7, <1>8, <1>9, <1>10, <1>11, <1>12 DEF IInv

\* The invariant is kept when select returns.
LEMMA KeepsSelect == ASSUME NEW busy \in BOOLEAN, IInv, Select(busy) PROVE IInv'
<1>1. TypeOK'
  <2>1. ready' \subseteq {"read", "write"} /\ pc' = "round"
    BY DEF IInv, TypeOK, Select
  <2>2. UNCHANGED <<state, data, doing, found, peer, heard, happened>>
    BY DEF Select
  <2>. QED  BY <2>1, <2>2 DEF IInv, TypeOK, state, data, peer
<1>2. Counts'
  BY ConnectionAssumption DEF IInv, TypeOK, Counts, Making, Select, Readable,
         state, data, work, peer
<1>3. Making'
  BY ConnectionAssumption DEF IInv, TypeOK, Making, Failing, Calls, Select,
         Readable, state, data, work, peer
<1>4. Serving'
  BY ConnectionAssumption DEF IInv, TypeOK, Making, Serving, Failing, Calls,
         Select, Readable, state, data, work, peer
<1>5. Failing'
  BY ConnectionAssumption DEF IInv, TypeOK, Counts, Making, Serving, Failing,
         Calls, Select, Readable, state, data, work, peer
<1>6. KeptUnlessShort'
  BY ConnectionAssumption DEF IInv, TypeOK, Counts, KeptUnlessShort,
         WrittenIsKept, Select, Readable, state, data, work, peer
<1>7. SentThisCall'
  BY ConnectionAssumption DEF IInv, TypeOK, Serving, Counts, SentThisCall,
         Calls, Select, Readable, state, data, work, peer
<1>8. NewsOfThisCall'
  BY ConnectionAssumption DEF IInv, TypeOK, Serving, Failing, NewsOfThisCall,
         Calls, Select, Readable, state, data, work, peer
<1>9. EndReached'
  BY ConnectionAssumption DEF IInv, TypeOK, Making, Serving, Failing,
         EndReached, Calls, Select, Readable, state, data, work, peer
<1>10. AttemptOver'
  BY ConnectionAssumption DEF IInv, TypeOK, Making, Serving, Failing,
         EndReached, AttemptOver, Calls, Select, Readable, state, data, work,
         peer
<1>11. Introduced'
  BY ConnectionAssumption DEF IInv, TypeOK, Making, Serving, Failing,
         Introduced, Calls, Select, Readable, state, data, work, peer
<1>12. IntroducedFirst'
  BY ConnectionAssumption DEF IInv, TypeOK, Making, Serving, Introduced,
         IntroducedFirst, Select, Readable, state, data, work, peer
<1>. QED  BY <1>1, <1>2, <1>3, <1>4, <1>5, <1>6, <1>7, <1>8, <1>9, <1>10, <1>11, <1>12 DEF IInv

\* The invariant is kept when on_read or on_write begins, or does not.
LEMMA KeepsBegin == ASSUME NEW e \in {"read", "write"}, IInv, Begin(e) PROVE IInv'
<1>1. TypeOK'
  BY ConnectionAssumption DEF IInv, TypeOK, Counts, Begin, state, data, work,
         peer
<1>2. Counts'
  BY ConnectionAssumption DEF IInv, TypeOK, Counts, Making, Begin, state,
         data, work, peer
<1>3. Making'
  BY ConnectionAssumption DEF IInv, TypeOK, Making, Failing, Calls, Begin,
         state, data, work, peer
<1>4. Serving'
  BY ConnectionAssumption DEF IInv, TypeOK, Making, Serving, Failing, Calls,
         Begin, state, data, work, peer
<1>5. Failing'
  BY ConnectionAssumption DEF IInv, TypeOK, Counts, Making, Serving, Failing,
         Calls, Begin, state, data, work, peer
<1>6. KeptUnlessShort'
  BY ConnectionAssumption DEF IInv, TypeOK, Counts, KeptUnlessShort,
         WrittenIsKept, Begin, state, data, work, peer
<1>7. SentThisCall'
  BY ConnectionAssumption DEF IInv, TypeOK, Serving, Counts, SentThisCall,
         Calls, Begin, state, data, work, peer
<1>8. NewsOfThisCall'
  BY ConnectionAssumption DEF IInv, TypeOK, Serving, Failing, NewsOfThisCall,
         Calls, Begin, state, data, work, peer
<1>9. EndReached'
  BY ConnectionAssumption DEF IInv, TypeOK, Making, Serving, Failing,
         EndReached, Calls, Begin, state, data, work, peer
<1>10. AttemptOver'
  BY ConnectionAssumption DEF IInv, TypeOK, Making, Serving, Failing,
         EndReached, AttemptOver, Calls, Begin, state, data, work, peer
<1>11. Introduced'
  BY ConnectionAssumption DEF IInv, TypeOK, Making, Serving, Failing,
         Introduced, Calls, Begin, state, data, work, peer
<1>12. IntroducedFirst'
  BY ConnectionAssumption DEF IInv, TypeOK, Making, Serving, Introduced,
         IntroducedFirst, Begin, state, data, work, peer
<1>. QED  BY <1>1, <1>2, <1>3, <1>4, <1>5, <1>6, <1>7, <1>8, <1>9, <1>10, <1>11, <1>12 DEF IInv

\* The invariant is kept when the worker gives the connection back.
LEMMA KeepsDeselect == ASSUME IInv, Deselect PROVE IInv'
<1>1. TypeOK'
  BY ConnectionAssumption DEF IInv, TypeOK, Counts, Deselect, state, data,
         work, peer
<1>2. Counts'
  BY ConnectionAssumption DEF IInv, TypeOK, Counts, Making, Deselect, state,
         data, work, peer
<1>3. Making'
  BY ConnectionAssumption DEF IInv, TypeOK, Making, Failing, Calls, Deselect,
         state, data, work, peer
<1>4. Serving'
  BY ConnectionAssumption DEF IInv, TypeOK, Making, Serving, Failing, Calls,
         Deselect, state, data, work, peer
<1>5. Failing'
  BY ConnectionAssumption DEF IInv, TypeOK, Counts, Making, Serving, Failing,
         Calls, Deselect, state, data, work, peer
<1>6. KeptUnlessShort'
  BY ConnectionAssumption DEF IInv, TypeOK, Counts, KeptUnlessShort,
         WrittenIsKept, Deselect, state, data, work, peer
<1>7. SentThisCall'
  BY ConnectionAssumption DEF IInv, TypeOK, Serving, Counts, SentThisCall,
         Calls, Deselect, state, data, work, peer
<1>8. NewsOfThisCall'
  BY ConnectionAssumption DEF IInv, TypeOK, Serving, Failing, NewsOfThisCall,
         Calls, Deselect, state, data, work, peer
<1>9. EndReached'
  BY ConnectionAssumption DEF IInv, TypeOK, Making, Serving, Failing,
         EndReached, Calls, Deselect, state, data, work, peer
<1>10. AttemptOver'
  BY ConnectionAssumption DEF IInv, TypeOK, Making, Serving, Failing,
         EndReached, AttemptOver, Calls, Deselect, state, data, work, peer
<1>11. Introduced'
  BY ConnectionAssumption DEF IInv, TypeOK, Making, Serving, Failing,
         Introduced, Calls, Deselect, state, data, work, peer
<1>12. IntroducedFirst'
  BY ConnectionAssumption DEF IInv, TypeOK, Making, Serving, Introduced,
         IntroducedFirst, Deselect, state, data, work, peer
<1>. QED  BY <1>1, <1>2, <1>3, <1>4, <1>5, <1>6, <1>7, <1>8, <1>9, <1>10, <1>11, <1>12 DEF IInv

\* The invariant is kept when on_read receives.
LEMMA KeepsReceive == ASSUME IInv, Receive PROVE IInv'
<1>1. TypeOK'
  BY ConnectionAssumption DEF IInv, TypeOK, Counts, Receive, state, data,
         work, peer
<1>2. Counts'
  BY ConnectionAssumption DEF IInv, TypeOK, Counts, Making, Receive, state,
         data, work, peer
<1>3. Making'
  BY ConnectionAssumption DEF IInv, TypeOK, Making, Failing, Calls, Receive,
         state, data, work, peer
<1>4. Serving'
  BY ConnectionAssumption DEF IInv, TypeOK, Making, Serving, Failing, Calls,
         Receive, state, data, work, peer
<1>5. Failing'
  BY ConnectionAssumption DEF IInv, TypeOK, Counts, Making, Serving, Failing,
         Calls, Receive, state, data, work, peer
<1>6. KeptUnlessShort'
  BY ConnectionAssumption DEF IInv, TypeOK, Counts, KeptUnlessShort,
         WrittenIsKept, Receive, state, data, work, peer
<1>7. SentThisCall'
  BY ConnectionAssumption DEF IInv, TypeOK, Serving, Counts, SentThisCall,
         Calls, Receive, state, data, work, peer
<1>8. NewsOfThisCall'
  BY ConnectionAssumption DEF IInv, TypeOK, Serving, Failing, NewsOfThisCall,
         Calls, Receive, state, data, work, peer
<1>9. EndReached'
  BY ConnectionAssumption DEF IInv, TypeOK, Making, Serving, Failing,
         EndReached, Calls, Receive, state, data, work, peer
<1>10. AttemptOver'
  BY ConnectionAssumption DEF IInv, TypeOK, Making, Serving, Failing,
         EndReached, AttemptOver, Calls, Receive, state, data, work, peer
<1>11. Introduced'
  BY ConnectionAssumption DEF IInv, TypeOK, Making, Serving, Failing,
         Introduced, Calls, Receive, state, data, work, peer
<1>12. IntroducedFirst'
  BY ConnectionAssumption DEF IInv, TypeOK, Making, Serving, Introduced,
         IntroducedFirst, Receive, state, data, work, peer
<1>. QED  BY <1>1, <1>2, <1>3, <1>4, <1>5, <1>6, <1>7, <1>8, <1>9, <1>10, <1>11, <1>12 DEF IInv

\* The invariant is kept when on_read has received all there is.
LEMMA KeepsReceived == ASSUME IInv, Received PROVE IInv'
<1>1. TypeOK'
  BY ConnectionAssumption DEF IInv, TypeOK, Counts, Received, Blocks, state,
         data, work, peer
<1>2. Counts'
  BY ConnectionAssumption DEF IInv, TypeOK, Counts, Making, Received, Blocks,
         state, data, work, peer
<1>3. Making'
  BY ConnectionAssumption DEF IInv, TypeOK, Making, Failing, Calls, Received,
         Blocks, state, data, work, peer
<1>4. Serving'
  BY ConnectionAssumption DEF IInv, TypeOK, Making, Serving, Failing, Calls,
         Received, Blocks, state, data, work, peer
<1>5. Failing'
  <2>1. pc = "recv" /\ doing = "read" /\ found \subseteq {"success"} /\ pc' = "error"
    BY DEF IInv, Failing, Serving, Received
  <2>2. found' = found \cup (IF sock \in {"new", "refused"} \/ ended = "reset" THEN {"failed"}
                            ELSE IF ended = "closed" THEN {"closed"} ELSE {})
    BY DEF Received
  <2>3. "success" \in found => sock = "up"
    BY <2>1 DEF IInv, Failing, Calls
  <2>4. ended = "reset" <=> "reset" \in happened
    BY DEF IInv, Making
  <2>5. UNCHANGED <<doing, sock, happened>>
    BY DEF Received, peer
  <2>. QED  BY <2>1, <2>2, <2>3, <2>4, <2>5 DEF Failing, Calls
<1>6. KeptUnlessShort'
  BY ConnectionAssumption DEF IInv, TypeOK, Counts, KeptUnlessShort,
         WrittenIsKept, Received, Blocks, state, data, work, peer
<1>7. SentThisCall'
  BY ConnectionAssumption DEF IInv, TypeOK, Serving, Counts, SentThisCall,
         Calls, Received, Blocks, state, data, work, peer
<1>8. NewsOfThisCall'
  BY ConnectionAssumption DEF IInv, TypeOK, Serving, Failing, NewsOfThisCall,
         Calls, Received, Blocks, state, data, work, peer
<1>9. EndReached'
  BY ConnectionAssumption DEF IInv, TypeOK, Making, Serving, Failing,
         EndReached, Calls, Received, Blocks, state, data, work, peer
<1>10. AttemptOver'
  BY ConnectionAssumption DEF IInv, TypeOK, Making, Serving, Failing,
         EndReached, AttemptOver, Calls, Received, Blocks, state, data, work,
         peer
<1>11. Introduced'
  BY ConnectionAssumption DEF IInv, TypeOK, Making, Serving, Failing,
         Introduced, Calls, Received, Blocks, state, data, work, peer
<1>12. IntroducedFirst'
  BY ConnectionAssumption DEF IInv, TypeOK, Making, Serving, Introduced,
         IntroducedFirst, Received, Blocks, state, data, work, peer
<1>. QED  BY <1>1, <1>2, <1>3, <1>4, <1>5, <1>6, <1>7, <1>8, <1>9, <1>10, <1>11, <1>12 DEF IInv

\* The invariant is kept when on_write sends.
LEMMA KeepsSend == ASSUME IInv, Send PROVE IInv'
<1>1. TypeOK'
  <2>. DEFINE size == Least(Burst, wr)
  <2>1. sent \in Nat /\ wr \in 0..Outgoing /\ written \in 0..Outgoing /\ sent + wr <= written
    BY ConnectionAssumption DEF IInv, TypeOK, Counts
  <2>2. size \in 1..wr
    BY <2>1, ConnectionAssumption DEF Send, Least
  <2>. HIDE DEF size
  <2>3. wr' = wr - size /\ sent' \in sent..sent + size
    BY <2>1, <2>2 DEF Send, size
  <2>4. wr' \in 0..Outgoing /\ sent' \in 0..written /\ sent <= sent'
    BY <2>1, <2>2, <2>3, ConnectionAssumption
  <2>5. found' = {"success"} /\ happened' \subseteq Mishaps
    BY DEF IInv, TypeOK, Send
  <2>6. told \in 0..sent'
    BY <2>1, <2>3, <2>4 DEF IInv, TypeOK
  <2>7. UNCHANGED <<state, rd, fresh, told, written, pc, doing, ready, peer, heard>>
    BY DEF Send
  <2>. QED  BY <2>4, <2>5, <2>6, <2>7 DEF IInv, TypeOK, state, peer
<1>2. Counts'
  BY ConnectionAssumption DEF IInv, TypeOK, Counts, Making, Send, Least,
         state, data, work, peer
<1>3. Making'
  BY ConnectionAssumption DEF IInv, TypeOK, Making, Failing, Calls, Send,
         state, data, work, peer
<1>4. Serving'
  BY ConnectionAssumption DEF IInv, TypeOK, Making, Serving, Failing, Calls,
         Send, state, data, work, peer
<1>5. Failing'
  BY ConnectionAssumption DEF IInv, TypeOK, Counts, Making, Serving, Failing,
         Calls, Send, state, data, work, peer
<1>6. KeptUnlessShort'
  BY ConnectionAssumption DEF IInv, TypeOK, Counts, KeptUnlessShort,
         WrittenIsKept, Send, Least, state, data, work, peer
<1>7. SentThisCall'
  BY ConnectionAssumption DEF IInv, TypeOK, Serving, Counts, SentThisCall,
         Calls, Send, Least, state, data, work, peer
<1>8. NewsOfThisCall'
  BY ConnectionAssumption DEF IInv, TypeOK, Serving, Failing, NewsOfThisCall,
         Calls, Send, state, data, work, peer
<1>9. EndReached'
  BY ConnectionAssumption DEF IInv, TypeOK, Making, Serving, Failing,
         EndReached, Calls, Send, state, data, work, peer
<1>10. AttemptOver'
  BY ConnectionAssumption DEF IInv, TypeOK, Making, Serving, Failing,
         EndReached, AttemptOver, Calls, Send, state, data, work, peer
<1>11. Introduced'
  BY ConnectionAssumption DEF IInv, TypeOK, Making, Serving, Failing,
         Introduced, Calls, Send, state, data, work, peer
<1>12. IntroducedFirst'
  BY ConnectionAssumption DEF IInv, TypeOK, Making, Serving, Introduced,
         IntroducedFirst, Send, state, data, work, peer
<1>. QED  BY <1>1, <1>2, <1>3, <1>4, <1>5, <1>6, <1>7, <1>8, <1>9, <1>10, <1>11, <1>12 DEF IInv

\* The invariant is kept when on_write has sent all there is.
LEMMA KeepsSent == ASSUME IInv, Sent PROVE IInv'
<1>1. TypeOK'
  BY ConnectionAssumption DEF IInv, TypeOK, Counts, Sent, state, data, work,
         peer
<1>2. Counts'
  BY ConnectionAssumption DEF IInv, TypeOK, Counts, Making, Sent, state, data,
         work, peer
<1>3. Making'
  BY ConnectionAssumption DEF IInv, TypeOK, Making, Failing, Calls, Sent,
         state, data, work, peer
<1>4. Serving'
  BY ConnectionAssumption DEF IInv, TypeOK, Making, Serving, Failing, Calls,
         Sent, state, data, work, peer
<1>5. Failing'
  BY ConnectionAssumption DEF IInv, TypeOK, Counts, Making, Serving, Failing,
         Calls, Sent, state, data, work, peer
<1>6. KeptUnlessShort'
  BY ConnectionAssumption DEF IInv, TypeOK, Counts, KeptUnlessShort,
         WrittenIsKept, Sent, state, data, work, peer
<1>7. SentThisCall'
  BY ConnectionAssumption DEF IInv, TypeOK, Serving, Counts, SentThisCall,
         Calls, Sent, state, data, work, peer
<1>8. NewsOfThisCall'
  BY ConnectionAssumption DEF IInv, TypeOK, Serving, Failing, NewsOfThisCall,
         Calls, Sent, state, data, work, peer
<1>9. EndReached'
  BY ConnectionAssumption DEF IInv, TypeOK, Making, Serving, Failing,
         EndReached, Calls, Sent, state, data, work, peer
<1>10. AttemptOver'
  BY ConnectionAssumption DEF IInv, TypeOK, Making, Serving, Failing,
         EndReached, AttemptOver, Calls, Sent, state, data, work, peer
<1>11. Introduced'
  BY ConnectionAssumption DEF IInv, TypeOK, Making, Serving, Failing,
         Introduced, Calls, Sent, state, data, work, peer
<1>12. IntroducedFirst'
  BY ConnectionAssumption DEF IInv, TypeOK, Making, Serving, Introduced,
         IntroducedFirst, Sent, state, data, work, peer
<1>. QED  BY <1>1, <1>2, <1>3, <1>4, <1>5, <1>6, <1>7, <1>8, <1>9, <1>10, <1>11, <1>12 DEF IInv

\* The invariant is kept by on_error.
LEMMA KeepsTellError == ASSUME IInv, TellError PROVE IInv'
<1>1. TypeOK'
  BY ConnectionAssumption DEF IInv, TypeOK, Counts, TellError, Hear, Telling,
         TellsConnect, state, data, work, peer
<1>2. Counts'
  BY ConnectionAssumption DEF IInv, TypeOK, Counts, Making, TellError,
         TellsConnect, state, data, work, peer
<1>3. Making'
  BY ConnectionAssumption DEF IInv, TypeOK, Making, Failing, Calls, TellError,
         Hear, Telling, TellsConnect, state, data, work, peer
<1>4. Serving'
  BY ConnectionAssumption DEF IInv, TypeOK, Making, Serving, Failing, Calls,
         TellError, TellsConnect, state, data, work, peer
<1>5. Failing'
  BY ConnectionAssumption DEF IInv, TypeOK, Counts, Making, Serving, Failing,
         Calls, TellError, TellsConnect, state, data, work, peer
<1>6. KeptUnlessShort'
  BY ConnectionAssumption DEF IInv, TypeOK, Counts, KeptUnlessShort,
         WrittenIsKept, TellError, TellsConnect, state, data, work, peer
<1>7. SentThisCall'
  BY ConnectionAssumption DEF IInv, TypeOK, Serving, Counts, SentThisCall,
         Calls, TellError, Telling, TellsConnect, state, data, work, peer
<1>8. NewsOfThisCall'
  BY ConnectionAssumption DEF IInv, TypeOK, Serving, Failing, NewsOfThisCall,
         Calls, TellError, Telling, TellsConnect, state, data, work, peer
<1>9. EndReached'
  BY ConnectionAssumption DEF IInv, TypeOK, Making, Serving, Failing,
         EndReached, Calls, TellError, Hear, Telling, TellsConnect, state,
         data, work, peer
<1>10. AttemptOver'
  BY ConnectionAssumption DEF IInv, TypeOK, Making, Serving, Failing,
         EndReached, AttemptOver, Calls, TellError, Hear, Telling,
         TellsConnect, state, data, work, peer
<1>11. Introduced'
  BY ConnectionAssumption DEF IInv, TypeOK, Making, Serving, Failing,
         Introduced, Calls, TellError, Hear, Telling, TellsConnect, state,
         data, work, peer
<1>12. IntroducedFirst'
  BY ConnectionAssumption DEF IInv, TypeOK, Making, Serving, Introduced,
         IntroducedFirst, TellError, Hear, Telling, TellsConnect, state, data,
         work, peer
<1>. QED  BY <1>1, <1>2, <1>3, <1>4, <1>5, <1>6, <1>7, <1>8, <1>9, <1>10, <1>11, <1>12 DEF IInv

\* The invariant is kept by rop_connect.
LEMMA KeepsTellConnect == ASSUME IInv, TellConnect PROVE IInv'
<1>1. TypeOK'
  <2>1. Telling \in {"accept", "connect", "refuse", "read", "write", "close", None}
    BY DEF IInv, TypeOK, Telling
  <2>2. heard' \subseteq {"accept", "connect", "refuse", "read", "write", "close"}
    BY <2>1 DEF IInv, TypeOK, TellConnect, Hear
  <2>3. pc' \in {"data", "round"} /\ mode' \in {"normal", "connect"} /\ cancelled' \in BOOLEAN
    BY DEF IInv, TypeOK, TellConnect
  <2>4. UNCHANGED <<origin, maker, data, doing, ready, found, peer, happened>>
    BY DEF TellConnect
  <2>. QED  BY <2>2, <2>3, <2>4 DEF IInv, TypeOK, data, peer
<1>2. Counts'
  BY ConnectionAssumption DEF IInv, TypeOK, Counts, Making, TellConnect,
         TellsConnect, state, data, work, peer
<1>3. Making'
  BY ConnectionAssumption DEF IInv, TypeOK, Making, Failing, Calls,
         TellConnect, Hear, Telling, TellsConnect, state, data, work, peer
<1>4. Serving'
  BY ConnectionAssumption DEF IInv, TypeOK, Making, Serving, Failing, Calls,
         TellConnect, TellsConnect, state, data, work, peer
<1>5. Failing'
  BY ConnectionAssumption DEF IInv, TypeOK, Counts, Making, Serving, Failing,
         Calls, TellConnect, TellsConnect, state, data, work, peer
<1>6. KeptUnlessShort'
  BY ConnectionAssumption DEF IInv, TypeOK, Counts, KeptUnlessShort,
         WrittenIsKept, TellConnect, TellsConnect, state, data, work, peer
<1>7. SentThisCall'
  BY ConnectionAssumption DEF IInv, TypeOK, Serving, Counts, SentThisCall,
         Calls, TellConnect, Telling, TellsConnect, state, data, work, peer
<1>8. NewsOfThisCall'
  BY ConnectionAssumption DEF IInv, TypeOK, Serving, Failing, NewsOfThisCall,
         Calls, TellConnect, Telling, TellsConnect, state, data, work, peer
<1>9. EndReached'
  BY ConnectionAssumption DEF IInv, TypeOK, Making, Serving, Failing,
         EndReached, Calls, TellConnect, Hear, Telling, TellsConnect, state,
         data, work, peer
<1>10. AttemptOver'
  BY ConnectionAssumption DEF IInv, TypeOK, Making, Serving, Failing,
         EndReached, AttemptOver, Calls, TellConnect, Hear, Telling,
         TellsConnect, state, data, work, peer
<1>11. Introduced'
  BY ConnectionAssumption DEF IInv, TypeOK, Making, Serving, Failing,
         Introduced, Calls, TellConnect, Hear, Telling, TellsConnect, state,
         data, work, peer
<1>12. IntroducedFirst'
  BY ConnectionAssumption DEF IInv, TypeOK, Making, Serving, Introduced,
         IntroducedFirst, TellConnect, Hear, Telling, TellsConnect, state,
         data, work, peer
<1>. QED  BY <1>1, <1>2, <1>3, <1>4, <1>5, <1>6, <1>7, <1>8, <1>9, <1>10, <1>11, <1>12 DEF IInv

\* The invariant is kept by rop_read or rop_write.
LEMMA KeepsTellData == ASSUME IInv, TellData PROVE IInv'
<1>1. TypeOK'
  <2>1. Telling \in {"read", "write", None}
    BY DEF IInv, TypeOK, TellData, Telling
  <2>2. heard' \subseteq {"accept", "connect", "refuse", "read", "write", "close"}
    BY <2>1 DEF IInv, TypeOK, TellData, Hear
  <2>3. told' \in 0..sent
    BY ConnectionAssumption DEF IInv, TypeOK, TellData
  <2>. QED  BY <2>2, <2>3 DEF IInv, TypeOK, TellData, state, peer
<1>2. Counts'
  BY ConnectionAssumption DEF IInv, TypeOK, Counts, Making, TellData,
         TellsConnect, state, data, work, peer
<1>3. Making'
  BY ConnectionAssumption DEF IInv, TypeOK, Making, Failing, Calls, TellData,
         Hear, Telling, TellsConnect, state, data, work, peer
<1>4. Serving'
  BY ConnectionAssumption DEF IInv, TypeOK, Making, Serving, Failing, Calls,
         TellData, TellsConnect, state, data, work, peer
<1>5. Failing'
  BY ConnectionAssumption DEF IInv, TypeOK, Counts, Making, Serving, Failing,
         Calls, TellData, TellsConnect, state, data, work, peer
<1>6. KeptUnlessShort'
  BY ConnectionAssumption DEF IInv, TypeOK, Counts, KeptUnlessShort,
         WrittenIsKept, TellData, TellsConnect, state, data, work, peer
<1>7. SentThisCall'
  BY ConnectionAssumption DEF IInv, TypeOK, Serving, Counts, SentThisCall,
         Calls, TellData, Telling, TellsConnect, state, data, work, peer
<1>8. NewsOfThisCall'
  BY ConnectionAssumption DEF IInv, TypeOK, Serving, Failing, NewsOfThisCall,
         Calls, TellData, Telling, TellsConnect, state, data, work, peer
<1>9. EndReached'
  BY ConnectionAssumption DEF IInv, TypeOK, Making, Serving, Failing,
         EndReached, Calls, TellData, Hear, Telling, TellsConnect, state,
         data, work, peer
<1>10. AttemptOver'
  BY ConnectionAssumption DEF IInv, TypeOK, Making, Serving, Failing,
         EndReached, AttemptOver, Calls, TellData, Hear, Telling,
         TellsConnect, state, data, work, peer
<1>11. Introduced'
  BY ConnectionAssumption DEF IInv, TypeOK, Making, Serving, Failing,
         Introduced, Calls, TellData, Hear, Telling, TellsConnect, state,
         data, work, peer
<1>12. IntroducedFirst'
  BY ConnectionAssumption DEF IInv, TypeOK, Making, Serving, Introduced,
         IntroducedFirst, TellData, Hear, Telling, TellsConnect, state, data,
         work, peer
<1>. QED  BY <1>1, <1>2, <1>3, <1>4, <1>5, <1>6, <1>7, <1>8, <1>9, <1>10, <1>11, <1>12 DEF IInv

\* The invariant is kept by rop_close.
LEMMA KeepsTellClose == ASSUME IInv, TellClose PROVE IInv'
<1>1. TypeOK'
  <2>1. Telling \in {"accept", "connect", "refuse", "read", "write", "close", None}
    BY DEF IInv, TypeOK, Telling
  <2>2. heard' \subseteq {"accept", "connect", "refuse", "read", "write", "close"}
    BY <2>1 DEF IInv, TypeOK, TellClose, Hear
  <2>3. pc' = "round" /\ cancelled' \in BOOLEAN
    BY DEF IInv, TypeOK, TellClose
  <2>4. UNCHANGED <<origin, maker, mode, data, doing, ready, found, peer, happened>>
    BY DEF TellClose
  <2>. QED  BY <2>2, <2>3, <2>4 DEF IInv, TypeOK, data, peer
<1>2. Counts'
  BY ConnectionAssumption DEF IInv, TypeOK, Counts, Making, TellClose,
         TellsConnect, state, data, work, peer
<1>3. Making'
  BY ConnectionAssumption DEF IInv, TypeOK, Making, Failing, Calls, TellClose,
         Hear, Telling, TellsConnect, state, data, work, peer
<1>4. Serving'
  BY ConnectionAssumption DEF IInv, TypeOK, Making, Serving, Failing, Calls,
         TellClose, TellsConnect, state, data, work, peer
<1>5. Failing'
  BY ConnectionAssumption DEF IInv, TypeOK, Counts, Making, Serving, Failing,
         Calls, TellClose, TellsConnect, state, data, work, peer
<1>6. KeptUnlessShort'
  BY ConnectionAssumption DEF IInv, TypeOK, Counts, KeptUnlessShort,
         WrittenIsKept, TellClose, TellsConnect, state, data, work, peer
<1>7. SentThisCall'
  BY ConnectionAssumption DEF IInv, TypeOK, Serving, Counts, SentThisCall,
         Calls, TellClose, Telling, TellsConnect, state, data, work, peer
<1>8. NewsOfThisCall'
  BY ConnectionAssumption DEF IInv, TypeOK, Serving, Failing, NewsOfThisCall,
         Calls, TellClose, Telling, TellsConnect, state, data, work, peer
<1>9. EndReached'
  BY ConnectionAssumption DEF IInv, TypeOK, Making, Serving, Failing,
         EndReached, Calls, TellClose, Hear, Telling, TellsConnect, state,
         data, work, peer
<1>10. AttemptOver'
  BY ConnectionAssumption DEF IInv, TypeOK, Making, Serving, Failing,
         EndReached, AttemptOver, Calls, TellClose, Hear, Telling,
         TellsConnect, state, data, work, peer
<1>11. Introduced'
  BY ConnectionAssumption DEF IInv, TypeOK, Making, Serving, Failing,
         Introduced, Calls, TellClose, Hear, Telling, TellsConnect, state,
         data, work, peer
<1>12. IntroducedFirst'
  BY ConnectionAssumption DEF IInv, TypeOK, Making, Serving, Introduced,
         IntroducedFirst, TellClose, Hear, Telling, TellsConnect, state, data,
         work, peer
<1>. QED  BY <1>1, <1>2, <1>3, <1>4, <1>5, <1>6, <1>7, <1>8, <1>9, <1>10, <1>11, <1>12 DEF IInv

LEMMA Initially == Init => IInv
<1>. SUFFICES ASSUME Init PROVE IInv
  OBVIOUS
<1>1. TypeOK
  <2>1. /\ rd \in 0..Incoming /\ arrived \in 0..Incoming /\ came \in 0..Incoming
        /\ wr \in 0..Outgoing /\ written \in 0..Outgoing
        /\ sent \in 0..written /\ told \in 0..sent
    BY ConnectionAssumption DEF Init
  <2>2. sock \in {"new", "up"}
    BY DEF Init
  <2>3. ready = {} /\ found = {} /\ heard = {} /\ happened \subseteq Mishaps
    BY DEF Init
  <2>. QED  BY <2>1, <2>2, <2>3 DEF Init, TypeOK
<1>a. Counts /\ Making
  BY DEF Init, Counts, Making
<1>2. Serving /\ Failing /\ KeptUnlessShort /\ SentThisCall /\ NewsOfThisCall
  BY DEF Init, Serving, Failing, KeptUnlessShort, WrittenIsKept, SentThisCall, NewsOfThisCall, Calls
<1>3. EndReached /\ AttemptOver /\ Introduced /\ IntroducedFirst
  BY DEF Init, EndReached, AttemptOver, Introduced, IntroducedFirst
<1>. QED  BY <1>1, <1>a, <1>2, <1>3 DEF IInv

\* A step that changes nothing keeps it.
LEMMA KeepsStill == ASSUME IInv, UNCHANGED vars PROVE IInv'
<1>1. TypeOK' /\ Counts' /\ Making' /\ Serving' /\ Failing'
  BY DEF IInv, TypeOK, Counts, Making, Serving, Failing, Calls, vars, state, data, work, peer
<1>2. KeptUnlessShort' /\ SentThisCall' /\ NewsOfThisCall'
  BY DEF IInv, KeptUnlessShort, WrittenIsKept, SentThisCall, NewsOfThisCall, Calls,
         vars, state, data, work, peer
<1>3. EndReached' /\ AttemptOver' /\ Introduced' /\ IntroducedFirst'
  BY DEF IInv, EndReached, AttemptOver, Introduced, IntroducedFirst, vars, state, data, work, peer
<1>. QED  BY <1>1, <1>2, <1>3 DEF IInv

\* IInv is an invariant of the connection.
THEOREM ConnectionInvariant == Spec => []IInv
<1>1. ASSUME IInv, [Next]_vars PROVE IInv'
  <2>1. CASE Make
    BY <1>1, <2>1, KeepsConnect, KeepsConnecting, KeepsAccepted DEF Make
  <2>2. CASE Serve
    <3>1. CASE Select(TRUE) \/ Select(FALSE)
      BY <1>1, <3>1, KeepsSelect
    <3>2. CASE Begin("read") \/ Begin("write")
      BY <1>1, <3>2, KeepsBegin
    <3>3. CASE Pick \/ Pulse \/ TimeOut \/ Deselect \/ Receive \/ Received \/ Send \/ Sent
      BY <1>1, <3>3, KeepsPick, KeepsPulse, KeepsTimeOut, KeepsDeselect, KeepsReceive,
         KeepsReceived, KeepsSend, KeepsSent
    <3>4. CASE TellError \/ TellConnect \/ TellData \/ TellClose
      BY <1>1, <3>4, KeepsTellError, KeepsTellConnect, KeepsTellData, KeepsTellClose
    <3>. QED  BY <2>2, <3>1, <3>2, <3>3, <3>4 DEF Serve
  <2>3. CASE Write \/ Read \/ Cancel
    BY <1>1, <2>3, KeepsWrite, KeepsRead, KeepsCancel
  <2>4. CASE Answer \/ Arrive \/ HangUp
    BY <1>1, <2>4, KeepsAnswer, KeepsArrive, KeepsHangUp
  <2>5. CASE Ended \/ UNCHANGED vars
    BY <1>1, <2>5, KeepsStill DEF Ended
  <2>. QED  BY <1>1, <2>1, <2>2, <2>3, <2>4, <2>5 DEF Next
<1>. QED  BY Initially, <1>1, PTL DEF Spec

\* Every variable keeps its type, no byte is sent that was not written, and
\* no mishap happens that was not allowed.
THEOREM Typing == Spec => []TypeOK
<1>1. IInv => TypeOK
  BY DEF IInv
<1>. QED  BY <1>1, ConnectionInvariant, PTL

\* No byte that was written is lost, unless a send was short.
THEOREM NothingLost == Spec => []KeptUnlessShort
<1>1. IInv => KeptUnlessShort
  BY DEF IInv
<1>. QED  BY <1>1, ConnectionInvariant, PTL

\* rop_write is told only of bytes the socket took.
THEOREM WritesAreReal == Spec => []WriteMeansSent
<1>1. ASSUME IInv PROVE WriteMeansSent
  <2>1. Telling = "write" => pc = "data" /\ doing = "write" /\ "success" \in found
    BY <1>1, ConnectionAssumption DEF IInv, TypeOK, Telling
  <2>. QED  BY <1>1, <2>1 DEF IInv, SentThisCall, WriteMeansSent, Calls
<1>. QED  BY <1>1, ConnectionInvariant, PTL

\* A connection is introduced to the dispatcher before its data is.
THEOREM Introductions == Spec => []IntroducedFirst
<1>1. IInv => IntroducedFirst
  BY DEF IInv
<1>. QED  BY <1>1, ConnectionInvariant, PTL

\* The end of an attempt to connect is told once.
THEOREM AttemptsEndOnce == Spec => []AttemptEndsOnce
<1>1. ASSUME IInv PROVE AttemptEndsOnce
  <2>1. SUFFICES ASSUME "reset" \notin happened, Telling \in {"connect", "refuse"}
                 PROVE  heard \cap {"connect", "refuse"} = {}
    BY DEF AttemptEndsOnce
  <2>2. mode = "connect" /\ pc \in {"error", "connect"}
    BY <1>1, <2>1, ConnectionAssumption DEF IInv, TypeOK, Telling, TellsConnect
  <2>3. "connect" \notin heard
    BY <1>1, <2>2 DEF IInv, AttemptOver
  <2>4. "refuse" \notin heard
    BY <1>1, <2>1, <2>2, ConnectionAssumption DEF IInv, EndReached, Telling, TellsConnect
  <2>. QED  BY <2>3, <2>4
<1>. QED  BY <1>1, ConnectionInvariant, PTL

\* Once rop_close or a failed rop_connect was told nothing else is.
THEOREM CloseIsLast == Spec => []NothingAfterClose
<1>1. ASSUME IInv PROVE NothingAfterClose
  BY <1>1 DEF IInv, EndReached, NothingAfterClose, Telling, TellsConnect
<1>. QED  BY <1>1, ConnectionInvariant, PTL

\* No data waits unannounced once the call that received it is over.
THEOREM NewsTravel == Spec => []NewsAreTold
<1>1. IInv => NewsAreTold
  BY DEF IInv, NewsOfThisCall, NewsAreTold
<1>. QED  BY <1>1, ConnectionInvariant, PTL
=============================================================================
