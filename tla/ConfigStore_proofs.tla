------------------------- MODULE ConfigStore_proofs -------------------------
(***************************************************************************)
(* Proofs about ConfigStore for every number of slots, rows, clients and   *)
(* data-path threads and every width of the sequence number.               *)
(***************************************************************************)
EXTENDS ConfigStore, FiniteSetTheorems, TLAPS

-----------------------------------------------------------------------------
(* Images.                                                                 *)

\* The words of a well-formed write are in range.
LEMMA ImageTypes ==
  ASSUME NEW rev \in Nat, NEW h \in HandleRange, NEW n \in 0 .. RowMax, NEW row \in Rows
  PROVE  IsImage(Image(rev, h, n, row))
<1>0. RowMax \in Nat \ {0}  BY ConfigStoreAssumption DEF ConfigStoreAssumption
<1> DEFINE f == Image(rev, h, n, row)
<1>1. 0 \in Words /\ 1 \in Words /\ 2 \in Words  BY <1>0 DEF Words
<1>2. f = [w \in Words |-> f[w]]  BY DEF Image
<1>3. f[0] = rev /\ f[1] = h /\ f[2] = n  BY <1>1 DEF Image
<1>4. NoRow \in Rows
  BY ConfigStoreAssumption DEF ConfigStoreAssumption, NoRow, Rows
<1>5. ASSUME NEW w \in 3 .. RowMax + 2 PROVE f[w] \in Rows
  <2>1. w \in Words /\ w # 0 /\ w # 1 /\ w # 2  BY <1>0 DEF Words
  <2>2. f[w] = row \/ f[w] = NoRow  BY <2>1 DEF Image
  <2> QED BY <1>4, <2>2
<1> HIDE DEF f
<1>6. IsImage(f)  BY <1>2, <1>3, <1>5 DEF IsImage, Revision, Instance, Entries
<1> QED BY <1>6 DEF f

\* A word taken from another image keeps an image well formed.
LEMMA MixTypes ==
  ASSUME NEW f, NEW g, IsImage(f), IsImage(g), NEW n \in Words
  PROVE  IsImage([f EXCEPT ![n] = g[n]])
<1>0. RowMax \in Nat \ {0}  BY ConfigStoreAssumption DEF ConfigStoreAssumption
<1>1. 0 \in Words /\ 1 \in Words /\ 2 \in Words /\ \A w \in 3 .. RowMax + 2 : w \in Words
  BY <1>0 DEF Words
<1> QED BY <1>1 DEF IsImage, Revision, Instance, Entries

\* The constants are in their ranges.
LEMMA ConstantTypes ==
  /\ IsImage(ZeroImage) /\ NoHandle \in HandleRange /\ NoProgram \in ProgramRange
  /\ NoRow \in Rows
  /\ NoView \in [slot : Slots, attempted : BOOLEAN, available : BOOLEAN, handle : HandleRange]
  /\ NoWrite.slot \in Slots /\ IsImage(NoWrite.image) /\ NoWrite.sha \in ProgramRange
  /\ Unknown \in [session : 0 .. SessionLimit, slot : Slots, instance : HandleRange,
                  revision : Nat, sha : ProgramRange]
<1>1. NoHandle \in HandleRange /\ NoProgram \in ProgramRange  BY DEF HandleRange, ProgramRange
<1>2. NoRow \in Rows  BY ConfigStoreAssumption DEF ConfigStoreAssumption, NoRow, Rows
<1>3. IsImage(ZeroImage)
  BY <1>1, <1>2, ImageTypes, ConfigStoreAssumption DEF ConfigStoreAssumption, ZeroImage
<1>4. (CHOOSE s \in Slots : TRUE) \in Slots
  BY ConfigStoreAssumption DEF ConfigStoreAssumption
<1>5. NoView \in [slot : Slots, attempted : BOOLEAN, available : BOOLEAN, handle : HandleRange]
  BY <1>1, <1>4 DEF NoView
<1>6. NoWrite.slot \in Slots /\ NoWrite.image = ZeroImage /\ NoWrite.sha = NoProgram
  BY <1>4 DEF NoWrite
<1>7. Unknown \in [session : 0 .. SessionLimit, slot : Slots, instance : HandleRange,
                   revision : Nat, sha : ProgramRange]
  BY <1>1, <1>4, ConfigStoreAssumption DEF Unknown, ConfigStoreAssumption
<1> QED BY <1>1, <1>2, <1>3, <1>5, <1>6, <1>7

-----------------------------------------------------------------------------
(* Initial states; a restart leads to one but for the session.             *)

\* The empty store satisfies the invariant.
LEMMA InitInv == Init => IInv
<1> SUFFICES ASSUME Init PROVE IInv
  OBVIOUS
<1>0. 0 \in 0 .. SequenceLimit /\ RowMax \in Nat \ {0} /\ InstanceLimit \in Nat /\ 1 \in 1 .. SessionLimit
  BY ConfigStoreAssumption DEF ConfigStoreAssumption
<1>1. StoreTypes
  BY <1>0, ConstantTypes DEF Init, StoreTypes
<1>2. WriterTypes
  BY <1>0, ConstantTypes DEF Init, WriterTypes
<1>3. ReaderTypes
  BY <1>0, ConstantTypes DEF Init, ReaderTypes
<1>4. OddWhileWriting  BY DEF Init, OddWhileWriting
<1>5. CopiedSoFar /\ AttemptState /\ AnswersAgree
  BY DEF Init, CopiedSoFar, AttemptState, AnswersAgree, NoView
<1> QED BY <1>1, <1>2, <1>3, <1>4, <1>5 DEF IInv, TypeOK

\* A restart establishes the invariant anew.
LEMMA RestartInv == IInv /\ Restart => IInv'
<1> SUFFICES ASSUME IInv, Restart PROVE IInv'
  OBVIOUS
<1>0. 0 \in 0 .. SequenceLimit /\ RowMax \in Nat \ {0} /\ InstanceLimit \in Nat /\ SessionLimit \in Nat
  BY ConfigStoreAssumption DEF ConfigStoreAssumption
<1>1. StoreTypes'
  <2>1. session' \in 1 .. SessionLimit
    BY <1>0 DEF Restart, IInv, TypeOK, StoreTypes
  <2> QED BY <1>0, <2>1, ConstantTypes DEF Restart, StoreTypes
<1>2. WriterTypes'
  BY <1>0, ConstantTypes DEF Restart, WriterTypes, IInv, TypeOK
<1>3. ReaderTypes'
  BY <1>0, ConstantTypes DEF Restart, ReaderTypes
<1>4. OddWhileWriting'  BY DEF Restart, OddWhileWriting
<1>5. CopiedSoFar' /\ AttemptState' /\ AnswersAgree'
  BY DEF Restart, CopiedSoFar, AttemptState, AnswersAgree, NoView
<1> QED BY <1>1, <1>2, <1>3, <1>4, <1>5 DEF IInv, TypeOK

-----------------------------------------------------------------------------
(* The writer.                                                             *)

\* Steps of the control path leave the data-path threads alone.
LEMMA ReaderFrame ==
  ASSUME ReaderTypes, AttemptState, AnswersAgree, UNCHANGED thrVars
  PROVE  ReaderTypes' /\ AttemptState' /\ AnswersAgree'
BY DEF ReaderTypes, AttemptState, AnswersAgree, thrVars

\* What a copying thread has stays true when the sequence number of a slot
\* either stays, with the words, or grows.
LEMMA CopyFrame ==
  ASSUME ReaderTypes, StoreTypes, CopiedSoFar, UNCHANGED thrVars, sequence' \in [Slots -> 0 .. SequenceLimit],
         \A s \in Slots : \/ sequence'[s] = sequence[s] /\ words'[s] = words[s]
                          \/ sequence'[s] = sequence[s] /\ sequence[s] % 2 = 1
                          \/ sequence'[s] > sequence[s]
  PROVE  CopiedSoFar'
<1> SUFFICES ASSUME NEW t \in Threads, tpc[t] \in {"copy", "check"}
             PROVE  /\ before[t] % 2 = 0 /\ before[t] <= sequence'[view[t].slot]
                    /\ before[t] = sequence'[view[t].slot] =>
                         \A w \in Words : w < tnext[t] \/ tpc[t] = "check" =>
                                            copy[t][w] = words'[view[t].slot][w]
  BY DEF CopiedSoFar, thrVars
<1> DEFINE s == view[t].slot
<1>1. s \in Slots /\ before[t] \in Nat
  BY ConfigStoreAssumption DEF ReaderTypes, ConfigStoreAssumption
<1>2. sequence[s] \in Nat /\ sequence'[s] \in Nat
  BY <1>1, ConfigStoreAssumption DEF StoreTypes, ConfigStoreAssumption
<1>3. /\ before[t] % 2 = 0 /\ before[t] <= sequence[s]
      /\ before[t] = sequence[s] =>
           \A w \in Words : w < tnext[t] \/ tpc[t] = "check" => copy[t][w] = words[s][w]
  BY DEF CopiedSoFar
<1>4. CASE sequence'[s] = sequence[s] /\ words'[s] = words[s]  BY <1>3, <1>4
<1>5. CASE sequence'[s] = sequence[s] /\ sequence[s] % 2 = 1
  <2>1. before[t] # sequence[s]  BY <1>3, <1>5
  <2> QED BY <1>3, <1>5, <2>1
<1>6. CASE sequence'[s] > sequence[s]
  <2>1. before[t] < sequence'[s]  BY <1>1, <1>2, <1>3, <1>6
  <2> QED BY <1>1, <1>2, <1>3, <2>1
<1> QED BY <1>1, <1>4, <1>5, <1>6

\* ls_config_write makes the sequence number of its slot odd.
LEMMA WriteBeginInv ==
  ASSUME IInv, wpc = "idle", NEW s \in Slots, NEW image, IsImage(image), NEW p \in ProgramRange,
         WriteBegin(s, image, p), UNCHANGED <<words, thrVars>>
  PROVE  /\ sequence' \in [Slots -> 0 .. SequenceLimit]
         /\ wpc' = "words" /\ wnext' \in 0 .. RowMax + 3 /\ wnext' \in Words
         /\ wr'.slot \in Slots /\ IsImage(wr'.image) /\ wr'.sha \in ProgramRange
         /\ OddWhileWriting' /\ CopiedSoFar'
<1>0. SequenceLimit \in Nat /\ SequenceLimit >= 3 /\ RowMax \in Nat
  BY ConfigStoreAssumption DEF ConfigStoreAssumption
<1>1. sequence \in [Slots -> 0 .. SequenceLimit]  BY DEF IInv, TypeOK, StoreTypes
<1>2. sequence[s] % 2 = 0 /\ sequence[s] <= SequenceLimit - 2
  BY DEF WriteBegin, WriteAdmitted
<1>3. sequence[s] \in Nat  BY <1>0, <1>1
<1>4. sequence' = [sequence EXCEPT ![s] = sequence[s] + 1]
  <2>1. Inc(sequence[s]) = sequence[s] + 1  BY <1>0, <1>2, <1>3 DEF Inc
  <2>2. sequence' = [sequence EXCEPT ![s] = Inc(sequence[s])]  BY <1>1 DEF WriteBegin
  <2> QED BY <2>1, <2>2
<1>5. sequence' \in [Slots -> 0 .. SequenceLimit]
  <2>1. sequence[s] + 1 \in 0 .. SequenceLimit  BY <1>0, <1>2, <1>3
  <2> QED BY <1>1, <1>4, <2>1
<1>6. wr' = [slot |-> s, image |-> image, sha |-> p] /\ wnext' = 0 /\ wpc' = "words"
  BY DEF WriteBegin
<1>7. wr'.slot = s /\ wr'.image = image /\ wr'.sha = p  BY <1>6
<1>8. 0 \in 0 .. RowMax + 3 /\ 0 \in Words  BY <1>0 DEF Words
<1>9. OddWhileWriting'
  <2> SUFFICES ASSUME NEW r \in Slots
               PROVE  IF r = s THEN sequence'[r] % 2 = 1 /\ sequence'[r] < SequenceLimit
                               ELSE sequence'[r] % 2 = 0
    BY <1>6, <1>7 DEF OddWhileWriting
  <2>1. CASE r = s
    <3>1. sequence'[s] = sequence[s] + 1  BY <1>1, <1>4
    <3> QED BY <1>0, <1>2, <1>3, <2>1, <3>1
  <2>2. CASE r # s
    <3>1. sequence'[r] = sequence[r]  BY <1>1, <1>4, <2>2
    <3>2. sequence[r] % 2 = 0  BY DEF IInv, OddWhileWriting
    <3> QED BY <2>2, <3>1, <3>2
  <2> QED BY <2>1, <2>2
<1>10. CopiedSoFar'
  <2>1. ASSUME NEW r \in Slots
        PROVE  (sequence'[r] = sequence[r] /\ words'[r] = words[r]) \/ sequence'[r] > sequence[r]
    <3>1. CASE r = s  BY <1>1, <1>3, <1>4, <3>1
    <3>2. CASE r # s  BY <1>1, <1>4, <3>2
    <3> QED BY <3>1, <3>2
  <2> QED BY <1>5, <2>1, CopyFrame DEF IInv, TypeOK
<1> QED BY <1>5, <1>6, <1>7, <1>8, <1>9, <1>10

\* Storing one word.
LEMMA WriteWordInv == IInv /\ WriteWord => IInv'
<1> SUFFICES ASSUME IInv, WriteWord PROVE IInv'
  OBVIOUS
<1>0. RowMax \in Nat /\ wr.slot \in Slots /\ IsImage(wr.image) /\ wnext \in Words
  BY ConfigStoreAssumption DEF ConfigStoreAssumption, IInv, TypeOK, WriterTypes, WriteWord
<1>1. words' = [words EXCEPT ![wr.slot][wnext] = wr.image[wnext]]  BY DEF WriteWord
<1>2. words = [s \in Slots |-> words[s]] /\ \A s \in Slots : IsImage(words[s])
  BY DEF IInv, TypeOK, StoreTypes
<1>3. UNCHANGED <<sequence, current, sha, issued, session, owner, wr, know, thrVars>>
  BY DEF WriteWord
<1>4. words' = [s \in Slots |-> words'[s]] /\ \A s \in Slots : IsImage(words'[s])
  <2>1. IsImage([words[wr.slot] EXCEPT ![wnext] = wr.image[wnext]])
    BY <1>0, <1>2, MixTypes
  <2>2. words' = [words EXCEPT ![wr.slot] = [words[wr.slot] EXCEPT ![wnext] = wr.image[wnext]]]
    BY <1>0, <1>1, <1>2
  <2> QED BY <1>0, <1>2, <2>1, <2>2
<1>5. StoreTypes'  BY <1>3, <1>4 DEF IInv, TypeOK, StoreTypes
<1>6. WriterTypes'
  <2>1. wnext' = wnext + 1 /\ wpc' = IF wnext = RowMax + 2 THEN "end" ELSE "words"
    BY DEF WriteWord
  <2>2. wnext' \in 0 .. RowMax + 3 /\ (wpc' = "words" => wnext' \in Words)
    BY <1>0, <2>1 DEF Words
  <2>3. wpc' \in {"idle", "words", "end"}  BY <2>1
  <2> QED BY <1>3, <2>2, <2>3 DEF IInv, TypeOK, WriterTypes
<1>7. ReaderTypes' /\ AttemptState' /\ AnswersAgree'  BY <1>3, ReaderFrame DEF IInv, TypeOK
<1>8. OddWhileWriting'
  <2>1. wpc # "idle" /\ wpc' # "idle"  BY DEF WriteWord
  <2> QED BY <1>3, <2>1 DEF IInv, OddWhileWriting
<1>9. CopiedSoFar'
  <2>1. sequence[wr.slot] % 2 = 1
    BY <1>0 DEF IInv, OddWhileWriting, WriteWord
  <2>2. \A s \in Slots : s # wr.slot => words'[s] = words[s]
    BY <1>1, <1>2
  <2>3. sequence' \in [Slots -> 0 .. SequenceLimit]
    BY <1>3 DEF IInv, TypeOK, StoreTypes
  <2> QED BY <1>3, <2>1, <2>2, <2>3, CopyFrame DEF IInv, TypeOK
<1> QED BY <1>5, <1>6, <1>7, <1>8, <1>9 DEF IInv, TypeOK

\* The end of a write makes the sequence number even again.
LEMMA WriteEndInv == IInv /\ WriteEnd => IInv'
<1> SUFFICES ASSUME IInv, WriteEnd PROVE IInv'
  OBVIOUS
<1>0. SequenceLimit \in Nat /\ RowMax \in Nat /\ wr.slot \in Slots /\ IsImage(wr.image) /\ wr.sha \in ProgramRange
  BY ConfigStoreAssumption DEF ConfigStoreAssumption, IInv, TypeOK, WriterTypes
<1> DEFINE s == wr.slot
<1>1. sequence \in [Slots -> 0 .. SequenceLimit]  BY DEF IInv, TypeOK, StoreTypes
<1>2. sequence[s] % 2 = 1 /\ sequence[s] < SequenceLimit /\ sequence[s] \in Nat
  BY <1>0, <1>1 DEF IInv, OddWhileWriting, WriteEnd
<1>3. sequence' = [sequence EXCEPT ![s] = sequence[s] + 1]
  <2>1. Inc(sequence[s]) = sequence[s] + 1  BY <1>0, <1>2 DEF Inc
  <2>2. sequence' = [sequence EXCEPT ![s] = Inc(sequence[s])]  BY <1>0, <1>1 DEF WriteEnd
  <2> QED BY <2>1, <2>2
<1>4. sequence' \in [Slots -> 0 .. SequenceLimit]
  <2>1. sequence[s] + 1 \in 0 .. SequenceLimit  BY <1>0, <1>2
  <2> QED BY <1>0, <1>1, <1>3, <2>1
<1>5. UNCHANGED <<words, issued, session, owner, know, thrVars>>
  BY DEF WriteEnd
<1>6. StoreTypes'
  <2>1. [revision |-> Revision(wr.image), instance |-> Instance(wr.image)] \in
          [revision : Nat, instance : HandleRange]
    BY <1>0 DEF IsImage
  <2>2. current' \in [Slots -> [revision : Nat, instance : HandleRange]]
    <3>1. current \in [Slots -> [revision : Nat, instance : HandleRange]]
      BY DEF IInv, TypeOK, StoreTypes
    <3>2. current' = [current EXCEPT ![s] =
                        [revision |-> Revision(wr.image), instance |-> Instance(wr.image)]]
      BY DEF WriteEnd
    <3> QED BY <1>0, <2>1, <3>1, <3>2
  <2>3. sha' \in [Slots -> ProgramRange]
    BY <1>0 DEF WriteEnd, IInv, TypeOK, StoreTypes
  <2> QED BY <1>4, <1>5, <2>2, <2>3 DEF IInv, TypeOK, StoreTypes
<1>7. WriterTypes'
  <2>1. wpc' = "idle" /\ wr' = NoWrite /\ wnext' = 0  BY DEF WriteEnd
  <2>2. 0 \in 0 .. RowMax + 3  BY <1>0
  <2> QED BY <1>5, <2>1, <2>2, ConstantTypes DEF IInv, TypeOK, WriterTypes
<1>8. ReaderTypes' /\ AttemptState' /\ AnswersAgree'  BY <1>5, ReaderFrame DEF IInv, TypeOK
<1>9. OddWhileWriting'
  <2> SUFFICES ASSUME NEW r \in Slots PROVE sequence'[r] % 2 = 0
    BY DEF OddWhileWriting, WriteEnd
  <2>1. CASE r = s
    <3>1. sequence'[s] = sequence[s] + 1  BY <1>0, <1>1, <1>3
    <3> QED BY <1>2, <2>1, <3>1
  <2>2. CASE r # s
    <3>1. sequence'[r] = sequence[r]  BY <1>1, <1>3, <2>2
    <3>2. sequence[r] % 2 = 0  BY <2>2 DEF IInv, OddWhileWriting
    <3> QED BY <3>1, <3>2
  <2> QED BY <2>1, <2>2
<1>10. CopiedSoFar'
  <2>1. ASSUME NEW r \in Slots
        PROVE  (sequence'[r] = sequence[r] /\ words'[r] = words[r]) \/ sequence'[r] > sequence[r]
    <3>1. CASE r = s  BY <1>1, <1>2, <1>3, <3>1
    <3>2. CASE r # s  BY <1>1, <1>3, <1>5, <3>2
    <3> QED BY <3>1, <3>2
  <2> QED BY <1>4, <1>5, <2>1, CopyFrame DEF IInv, TypeOK
<1> QED BY <1>6, <1>7, <1>8, <1>9, <1>10 DEF IInv, TypeOK

-----------------------------------------------------------------------------
(* The operations.                                                         *)

\* A load draws an instance and may bind it.
LEMMA LoadInv == ASSUME IInv, NEW s \in Slots, NEW p \in Programs, Load(s, p) PROVE IInv'
<1>0. InstanceLimit \in Nat /\ RowMax \in Nat \ {0}
  BY ConfigStoreAssumption DEF ConfigStoreAssumption
<1>1. UNCHANGED <<words, current, sha, session, know, thrVars>> /\ wpc = "idle" /\ issued < InstanceLimit
  BY DEF Load
<1>2. issued \in 0 .. InstanceLimit  BY DEF IInv, TypeOK, StoreTypes
<1>3. NewInstance(s) = <<issued + 1, s>> /\ NewInstance(s) \in Handles /\ NewInstance(s)[1] = issued + 1
  BY <1>0, <1>1, <1>2 DEF NewInstance, Handles
<1>4. issued' \in 0 .. InstanceLimit
  BY <1>0, <1>1, <1>2, <1>3 DEF Load
<1>5. p \in ProgramRange  BY DEF ProgramRange
<1>6. owner' \in [Handles -> ProgramRange]
  BY <1>3, <1>5 DEF Load, IInv, TypeOK, StoreTypes
<1>7. ReaderTypes' /\ AttemptState' /\ AnswersAgree'  BY <1>1, ReaderFrame DEF IInv, TypeOK
<1>8. CASE WriteBegin(s, Image(0, NewInstance(s), 0, NoRow), p)
  <2>1. IsImage(Image(0, NewInstance(s), 0, NoRow))
    BY <1>0, <1>3, ConstantTypes, ImageTypes DEF HandleRange
  <2>2. /\ sequence' \in [Slots -> 0 .. SequenceLimit]
        /\ wpc' = "words" /\ wnext' \in 0 .. RowMax + 3 /\ wnext' \in Words
        /\ wr'.slot \in Slots /\ IsImage(wr'.image) /\ wr'.sha \in ProgramRange
        /\ OddWhileWriting' /\ CopiedSoFar'
    BY <1>1, <1>5, <1>8, <2>1, WriteBeginInv
  <2>3. StoreTypes'   BY <1>1, <1>4, <1>6, <2>2 DEF IInv, TypeOK, StoreTypes
  <2>4. WriterTypes'  BY <1>1, <2>2 DEF IInv, TypeOK, WriterTypes
  <2> QED BY <1>7, <2>2, <2>3, <2>4 DEF IInv, TypeOK
<1>9. CASE UNCHANGED <<sequence, wrVars>>
  <2>1. StoreTypes'   BY <1>1, <1>4, <1>6, <1>9 DEF IInv, TypeOK, StoreTypes
  <2>2. WriterTypes'  BY <1>1, <1>9 DEF IInv, TypeOK, WriterTypes, wrVars
  <2>3. OddWhileWriting'  BY <1>1, <1>9 DEF IInv, OddWhileWriting, wrVars
  <2>4. CopiedSoFar'      BY <1>1, <1>9 DEF IInv, CopiedSoFar, thrVars
  <2> QED BY <1>7, <2>1, <2>2, <2>3, <2>4 DEF IInv, TypeOK
<1> QED BY <1>8, <1>9 DEF Load

\* Revoke and publish write an image and change nothing else of the store.
LEMMA WriteOpInv ==
  ASSUME IInv, wpc = "idle", NEW s \in Slots, NEW image, IsImage(image), NEW p \in ProgramRange,
         WriteBegin(s, image, p),
         UNCHANGED <<words, current, sha, issued, session, owner, know, thrVars>>
  PROVE  IInv'
<1>1. /\ sequence' \in [Slots -> 0 .. SequenceLimit]
      /\ wpc' = "words" /\ wnext' \in 0 .. RowMax + 3 /\ wnext' \in Words
      /\ wr'.slot \in Slots /\ IsImage(wr'.image) /\ wr'.sha \in ProgramRange
      /\ OddWhileWriting' /\ CopiedSoFar'
  BY WriteBeginInv
<1>2. ReaderTypes' /\ AttemptState' /\ AnswersAgree'  BY ReaderFrame DEF IInv, TypeOK
<1>3. StoreTypes'   BY <1>1 DEF IInv, TypeOK, StoreTypes
<1>4. WriterTypes'  BY <1>1 DEF IInv, TypeOK, WriterTypes
<1> QED BY <1>1, <1>2, <1>3, <1>4 DEF IInv, TypeOK

\* ls_config_revoke
LEMMA RevokeInv == ASSUME IInv, NEW s \in Slots, Revoke(s) PROVE IInv'
<1>1. sha[s] \in ProgramRange  BY DEF IInv, TypeOK, StoreTypes
<1> QED BY <1>1, ConstantTypes, WriteOpInv DEF Revoke

\* ls_config_publish
LEMMA PublishInv == ASSUME IInv, NEW c \in Clients, NEW n \in 0 .. RowMax, NEW v \in 0 .. RevisionLimit, Publish(c, n, v) PROVE IInv'
<1> DEFINE r == know[c]
           row == [session |-> r.session, program |-> r.sha]
<1>1. r \in [session : 0 .. SessionLimit, slot : Slots, instance : HandleRange,
              revision : Nat, sha : ProgramRange]
  BY DEF IInv, TypeOK, WriterTypes
<1>2. r.slot \in Slots /\ sha[r.slot] \in ProgramRange
  BY <1>1 DEF IInv, TypeOK, StoreTypes
<1>3. row \in Rows  BY <1>1 DEF Rows, ProgramRange
<1>4. n \in 0 .. RowMax /\ v \in Nat /\ r.instance \in HandleRange
  BY <1>1, ConfigStoreAssumption DEF ConfigStoreAssumption
<1>5. IsImage(Image(v, r.instance, n, row))
  BY <1>3, <1>4, ImageTypes
<1>6. /\ wpc = "idle"
      /\ WriteBegin(r.slot, Image(v, r.instance, n, row), sha[r.slot])
      /\ UNCHANGED <<words, current, sha, issued, session, owner, know, thrVars>>
  BY DEF Publish
<1> HIDE DEF r, row
<1> QED BY <1>2, <1>5, <1>6, WriteOpInv

\* CONFIG_STATUS
LEMMA StatusInv == ASSUME IInv, NEW c \in Clients, NEW s \in Slots, Status(c, s) PROVE IInv'
<1>1. UNCHANGED <<slotVars, wrVars, thrVars>>  BY DEF Status
<1> DEFINE k == [session |-> session, slot |-> s, instance |-> current[s].instance,
                 revision |-> current[s].revision, sha |-> sha[s]]
<1>2. k \in [session : 0 .. SessionLimit, slot : Slots, instance : HandleRange,
             revision : Nat, sha : ProgramRange]
  BY ConfigStoreAssumption DEF ConfigStoreAssumption, IInv, TypeOK, StoreTypes
<1>3. know' = [know EXCEPT ![c] = k]  BY DEF Status
<1> HIDE DEF k
<1>4. know' \in [Clients -> [session : 0 .. SessionLimit, slot : Slots, instance : HandleRange,
                             revision : Nat, sha : ProgramRange]]
  BY <1>2, <1>3 DEF IInv, TypeOK, WriterTypes
<1>5. StoreTypes'   BY <1>1 DEF IInv, TypeOK, StoreTypes, slotVars
<1>6. WriterTypes'  BY <1>1, <1>4 DEF IInv, TypeOK, WriterTypes, wrVars
<1>7. ReaderTypes' /\ AttemptState' /\ AnswersAgree'  BY <1>1, ReaderFrame DEF IInv, TypeOK
<1>8. OddWhileWriting'  BY <1>1 DEF IInv, OddWhileWriting, wrVars, slotVars
<1>9. CopiedSoFar'      BY <1>1 DEF IInv, CopiedSoFar, thrVars, slotVars
<1> QED BY <1>5, <1>6, <1>7, <1>8, <1>9 DEF IInv, TypeOK

-----------------------------------------------------------------------------
(* The data-path threads.                                                  *)

\* Steps of a thread leave the store and the writer alone.
LEMMA ControlFrame ==
  ASSUME IInv, UNCHANGED ctlSide
  PROVE  StoreTypes' /\ WriterTypes' /\ OddWhileWriting'
BY DEF IInv, TypeOK, StoreTypes, WriterTypes, OddWhileWriting, ctlSide, slotVars, wrVars

\* The variables of one thread after a step of that thread.
ThreadTo(t, x, v, f, b, n, a) ==
  /\ tpc' = [tpc EXCEPT ![t] = x] /\ view' = [view EXCEPT ![t] = v]
  /\ copy' = [copy EXCEPT ![t] = f] /\ before' = [before EXCEPT ![t] = b]
  /\ tnext' = [tnext EXCEPT ![t] = n] /\ answers' = [answers EXCEPT ![t] = a]

ViewRecord == [slot : Slots, attempted : BOOLEAN, available : BOOLEAN, handle : HandleRange]

\* A thread step keeps the invariant when the thread's own part of it holds
\* afterwards.
LEMMA ThreadInv ==
  ASSUME IInv, UNCHANGED ctlSide, NEW t \in Threads,
         NEW x \in {"idle", "ready", "look", "copy", "check"}, NEW v \in ViewRecord,
         NEW f, IsImage(f), NEW b \in 0 .. SequenceLimit, NEW n \in 0 .. RowMax + 3, NEW a,
         ThreadTo(t, x, v, f, b, n, a),
         x = "copy" => n \in Words,
         x \in {"copy", "check"} =>
           /\ b % 2 = 0 /\ b <= sequence[v.slot]
           /\ b = sequence[v.slot] =>
                \A w \in Words : w < n \/ x = "check" => f[w] = words[v.slot][w],
         v.available => v.attempted /\ x = "ready",
         x \in {"look", "copy", "check"} => v.attempted,
         a \subseteq (IF x = "ready" /\ v.attempted
                       THEN {IF v.available THEN f ELSE Absent} ELSE {})
  PROVE  IInv'
<1>0. /\ tpc \in [Threads -> {"idle", "ready", "look", "copy", "check"}]
      /\ view \in [Threads -> ViewRecord] /\ before \in [Threads -> 0 .. SequenceLimit]
      /\ tnext \in [Threads -> 0 .. RowMax + 3] /\ copy = [u \in Threads |-> copy[u]]
      /\ \A u \in Threads : IsImage(copy[u])
      /\ \A u \in Threads : tpc[u] = "copy" => tnext[u] \in Words
      /\ answers = [u \in Threads |-> answers[u]]
  BY DEF IInv, TypeOK, ReaderTypes, ViewRecord
<1>1. /\ tpc'[t] = x /\ view'[t] = v /\ copy'[t] = f /\ before'[t] = b /\ tnext'[t] = n
      /\ answers'[t] = a
  BY <1>0 DEF ThreadTo
<1>2. \A u \in Threads : u # t =>
        /\ tpc'[u] = tpc[u] /\ view'[u] = view[u] /\ copy'[u] = copy[u] /\ before'[u] = before[u]
        /\ tnext'[u] = tnext[u] /\ answers'[u] = answers[u]
  BY <1>0 DEF ThreadTo
<1>3. ReaderTypes'
  <2>1. tpc' \in [Threads -> {"idle", "ready", "look", "copy", "check"}]  BY <1>0 DEF ThreadTo
  <2>2. view' \in [Threads -> ViewRecord]  BY <1>0 DEF ThreadTo
  <2>3. before' \in [Threads -> 0 .. SequenceLimit]  BY <1>0 DEF ThreadTo
  <2>4. tnext' \in [Threads -> 0 .. RowMax + 3]  BY <1>0 DEF ThreadTo
  <2>5. copy' = [u \in Threads |-> copy'[u]]  BY <1>0 DEF ThreadTo
  <2>6. \A u \in Threads : IsImage(copy'[u])  BY <1>0, <1>1, <1>2
  <2>7. \A u \in Threads : tpc'[u] = "copy" => tnext'[u] \in Words  BY <1>0, <1>1, <1>2
  <2>8. answers' = [u \in Threads |-> answers'[u]]  BY <1>0 DEF ThreadTo
  <2> QED BY <2>1, <2>2, <2>3, <2>4, <2>5, <2>6, <2>7, <2>8 DEF ReaderTypes, ViewRecord
<1>4. UNCHANGED <<sequence, words>>  BY DEF ctlSide, slotVars
<1>5. CopiedSoFar'
  <2> SUFFICES ASSUME NEW u \in Threads, tpc'[u] \in {"copy", "check"}
               PROVE  /\ before'[u] % 2 = 0 /\ before'[u] <= sequence[view'[u].slot]
                      /\ before'[u] = sequence[view'[u].slot] =>
                           \A w \in Words : w < tnext'[u] \/ tpc'[u] = "check" =>
                                              copy'[u][w] = words[view'[u].slot][w]
    BY <1>4 DEF CopiedSoFar
  <2>1. CASE u = t  BY <1>1, <2>1
  <2>2. CASE u # t  BY <1>2, <2>2 DEF IInv, CopiedSoFar
  <2> QED BY <2>1, <2>2
<1>6. AnswersAgree'
  <2> SUFFICES ASSUME NEW u \in Threads
               PROVE  answers'[u] \subseteq
                        (IF tpc'[u] = "ready" /\ view'[u].attempted
                           THEN {IF view'[u].available THEN copy'[u] ELSE Absent} ELSE {})
    BY DEF AnswersAgree
  <2>1. CASE u = t  BY <1>1, <2>1
  <2>2. CASE u # t  BY <1>2, <2>2 DEF IInv, AnswersAgree
  <2> QED BY <2>1, <2>2
<1>7. AttemptState'
  <2> SUFFICES ASSUME NEW u \in Threads
               PROVE  /\ view'[u].available => view'[u].attempted /\ tpc'[u] = "ready"
                      /\ tpc'[u] \in {"look", "copy", "check"} => view'[u].attempted
    BY DEF AttemptState
  <2>1. CASE u = t  BY <1>1, <2>1
  <2>2. CASE u # t  BY <1>2, <2>2 DEF IInv, AttemptState
  <2> QED BY <2>1, <2>2
<1> QED BY <1>3, <1>5, <1>6, <1>7, ControlFrame DEF IInv, TypeOK

\* The thread variables that a step leaves alone, in the form of ThreadTo.
LEMMA SameThread ==
  ASSUME IInv, NEW t \in Threads
  PROVE  /\ tpc = [tpc EXCEPT ![t] = tpc[t]] /\ view = [view EXCEPT ![t] = view[t]]
         /\ copy = [copy EXCEPT ![t] = copy[t]] /\ before = [before EXCEPT ![t] = before[t]]
         /\ tnext = [tnext EXCEPT ![t] = tnext[t]] /\ answers = [answers EXCEPT ![t] = answers[t]]
         /\ view[t] \in ViewRecord /\ IsImage(copy[t]) /\ before[t] \in 0 .. SequenceLimit
         /\ tnext[t] \in 0 .. RowMax + 3 /\ view[t].slot \in Slots
BY DEF IInv, TypeOK, ReaderTypes, ViewRecord

\* ls_config_begin
LEMMA BeginInv == ASSUME IInv, NEW t \in Threads, NEW h \in Handles, Begin(t, h) PROVE IInv'
<1> DEFINE v == [NoView EXCEPT !.slot = h[2], !.handle = h]
<1>1. v \in ViewRecord /\ ~v.available
  BY ConstantTypes DEF ViewRecord, NoView, Handles, HandleRange
<1>2. UNCHANGED ctlSide  BY DEF Begin
<1>3. answers[t] = {}
  BY DEF Begin, IInv, AnswersAgree
<1>4. ThreadTo(t, "ready", v, copy[t], before[t], tnext[t], {})
  BY <1>3, SameThread DEF Begin, ThreadTo
<1> HIDE DEF v
<1> QED BY <1>1, <1>2, <1>4, SameThread, ThreadInv

\* The first lookup of an invocation.
LEMMA LookupInv == ASSUME IInv, NEW t \in Threads, Lookup(t) PROVE IInv'
<1> DEFINE v == [view[t] EXCEPT !.attempted = TRUE]
<1>0. ~view[t].available  BY DEF Lookup, IInv, AttemptState
<1>1. v \in ViewRecord /\ v.attempted /\ ~v.available  BY <1>0, SameThread DEF ViewRecord
<1>2. UNCHANGED ctlSide  BY DEF Lookup
<1>3. answers[t] = {}
  BY DEF Lookup, IInv, AnswersAgree
<1>4. view' = [view EXCEPT ![t] = v]
  BY SameThread DEF Lookup
<1>5. ThreadTo(t, "look", v, copy[t], before[t], tnext[t], {})
  BY <1>3, <1>4, SameThread DEF Lookup, ThreadTo
<1> HIDE DEF v
<1> QED BY <1>1, <1>2, <1>5, SameThread, ThreadInv

\* A later lookup of an invocation.
LEMMA AgainInv == ASSUME IInv, NEW t \in Threads, LookupAgain(t) PROVE IInv'
<1> DEFINE x == IF view[t].available THEN copy[t] ELSE Absent
<1>1. UNCHANGED ctlSide /\ tpc[t] = "ready" /\ view[t].attempted  BY DEF LookupAgain
<1>2. answers[t] \subseteq {x}  BY <1>1 DEF IInv, AnswersAgree
<1>3. answers' = [answers EXCEPT ![t] = answers[t] \union {x}]
  BY SameThread DEF LookupAgain, Answer
<1>4. ThreadTo(t, "ready", view[t], copy[t], before[t], tnext[t], answers[t] \union {x})
  BY <1>1, <1>3, SameThread DEF LookupAgain, ThreadTo
<1>5. answers[t] \union {x} \subseteq
        (IF "ready" = "ready" /\ view[t].attempted
           THEN {IF view[t].available THEN copy[t] ELSE Absent} ELSE {})
  BY <1>1, <1>2
<1>6. view[t].available => view[t].attempted  BY <1>1
<1> HIDE DEF x
<1> QED BY <1>1, <1>4, <1>5, <1>6, SameThread, ThreadInv

\* The first load of the sequence number.
LEMMA StartInv == ASSUME IInv, NEW t \in Threads, LookupStart(t) PROVE IInv'
<1> DEFINE s == view[t].slot
           b == sequence[s]
<1>0. RowMax \in Nat \ {0} /\ SequenceLimit \in Nat
  BY ConfigStoreAssumption DEF ConfigStoreAssumption
<1>1. UNCHANGED ctlSide  BY DEF LookupStart
<1>a. view[t].attempted /\ ~view[t].available  BY DEF LookupStart, IInv, AttemptState
<1>2. answers[t] = {}  BY DEF LookupStart, IInv, AnswersAgree
<1>3. b \in 0 .. SequenceLimit  BY SameThread DEF IInv, TypeOK, StoreTypes
<1>4. 0 \in 0 .. RowMax + 3 /\ 0 \in Words  BY <1>0 DEF Words
<1>5. CASE b % 2 = 1
  <2>1. answers' = [answers EXCEPT ![t] = {Absent}]
    BY <1>2, <1>5, SameThread DEF LookupStart, Answer
  <2>2. ThreadTo(t, "ready", view[t], copy[t], b, 0, {Absent})
    BY <1>5, <2>1, SameThread DEF LookupStart, ThreadTo
  <2>3. {Absent} \subseteq (IF "ready" = "ready" /\ view[t].attempted
                               THEN {IF view[t].available THEN copy[t] ELSE Absent} ELSE {})
    BY <1>a
  <2> HIDE DEF b
  <2> QED BY <1>1, <1>a, <1>3, <1>4, <2>2, <2>3, SameThread, ThreadInv
<1>6. CASE b % 2 # 1
  <2>1. ThreadTo(t, "copy", view[t], copy[t], b, 0, {})
    BY <1>2, <1>6, SameThread DEF LookupStart, ThreadTo
  <2>2. b % 2 = 0  BY <1>0, <1>3, <1>6
  <2>3. b <= sequence[view[t].slot] /\ \A w \in Words : ~(w < 0)
    BY <1>0, <1>3 DEF Words
  <2> HIDE DEF b
  <2> QED BY <1>1, <1>a, <1>3, <1>4, <2>1, <2>2, <2>3, SameThread, ThreadInv
<1> QED BY <1>5, <1>6

\* Copying one word.
LEMMA CopyInv == ASSUME IInv, NEW t \in Threads, LookupCopy(t) PROVE IInv'
<1> DEFINE s == view[t].slot
           n == tnext[t]
           f == [copy[t] EXCEPT ![n] = words[s][n]]
           x == IF n = RowMax + 2 THEN "check" ELSE "copy"
<1>0. RowMax \in Nat \ {0}  BY ConfigStoreAssumption DEF ConfigStoreAssumption
<1>1. UNCHANGED ctlSide /\ tpc[t] = "copy"  BY DEF LookupCopy
<1>a. view[t].attempted /\ ~view[t].available  BY <1>1 DEF IInv, AttemptState
<1>2. answers[t] = {}  BY <1>1 DEF IInv, AnswersAgree
<1>3. s \in Slots /\ n \in Words /\ IsImage(copy[t]) /\ IsImage(words[s])
  BY <1>1, SameThread DEF IInv, TypeOK, ReaderTypes, StoreTypes
<1>4. IsImage(f)  BY <1>3, MixTypes
<1>5. copy' = [copy EXCEPT ![t] = f]
  BY SameThread DEF LookupCopy
<1>6. tnext' = [tnext EXCEPT ![t] = n + 1] /\ tpc' = [tpc EXCEPT ![t] = x]
  BY SameThread DEF LookupCopy
<1>7. ThreadTo(t, x, view[t], f, before[t], n + 1, {})
  BY <1>2, <1>5, <1>6, SameThread DEF LookupCopy, ThreadTo
<1>8. n + 1 \in 0 .. RowMax + 3 /\ (x = "copy" => n + 1 \in Words) /\ x \in {"copy", "check"}
  BY <1>0, <1>3 DEF Words
<1>9. /\ before[t] % 2 = 0 /\ before[t] <= sequence[s]
      /\ before[t] = sequence[s] => \A w \in Words : w < n => copy[t][w] = words[s][w]
  BY <1>1 DEF IInv, CopiedSoFar
<1>10. before[t] = sequence[s] => \A w \in Words : w < n + 1 \/ x = "check" => f[w] = words[s][w]
  <2> SUFFICES ASSUME before[t] = sequence[s], NEW w \in Words, w < n + 1 \/ x = "check"
               PROVE  f[w] = words[s][w]
    OBVIOUS
  <2>1. w < n \/ w = n  BY <1>0, <1>3 DEF Words
  <2>2. copy[t] = [y \in Words |-> copy[t][y]]  BY <1>3 DEF IsImage
  <2>3. CASE w = n  BY <2>2, <2>3
  <2>4. CASE w # n
    <3>1. f[w] = copy[t][w]  BY <2>2, <2>4
    <3> QED BY <1>9, <2>1, <2>4, <3>1
  <2> QED BY <2>3, <2>4
<1>11. x # "ready"  OBVIOUS
<1> HIDE DEF f, x
<1> QED BY <1>1, <1>a, <1>4, <1>7, <1>8, <1>9, <1>10, <1>11, SameThread, ThreadInv

\* The end of the invocation.
LEMMA EndInv == ASSUME IInv, NEW t \in Threads, End(t) PROVE IInv'
<1>0. 0 \in 0 .. SequenceLimit /\ 0 \in 0 .. RowMax + 3
  BY ConfigStoreAssumption DEF ConfigStoreAssumption
<1>1. ThreadTo(t, "idle", NoView, ZeroImage, 0, 0, {}) /\ UNCHANGED ctlSide
  BY DEF End, ThreadTo
<1>2. NoView \in ViewRecord /\ ~NoView.available  BY ConstantTypes DEF ViewRecord, NoView
<1> QED BY <1>0, <1>1, <1>2, ConstantTypes, ThreadInv

\* The checks after the copy.
LEMMA CheckInv == ASSUME IInv, NEW t \in Threads, LookupCheck(t) PROVE IInv'
<1>1. UNCHANGED ctlSide /\ tpc[t] = "check"  BY DEF LookupCheck
<1>a. view[t].attempted /\ ~view[t].available  BY <1>1 DEF IInv, AttemptState
<1>2. answers[t] = {}  BY <1>1 DEF IInv, AnswersAgree
<1>3. CASE SnapshotGood(t)
  <2> DEFINE v == [view[t] EXCEPT !.available = TRUE]
  <2>1. v \in ViewRecord /\ v.available /\ v.attempted  BY <1>a, SameThread DEF ViewRecord
  <2>2. view' = [view EXCEPT ![t] = v]  BY <1>3, SameThread DEF LookupCheck
  <2>3. answers' = [answers EXCEPT ![t] = {copy[t]}]
    BY <1>2, <1>3, SameThread DEF LookupCheck, Answer
  <2>4. ThreadTo(t, "ready", v, copy[t], before[t], tnext[t], {copy[t]})
    BY <2>2, <2>3, SameThread DEF LookupCheck, ThreadTo
  <2>5. {copy[t]} \subseteq (IF "ready" = "ready" /\ v.attempted
                                THEN {IF v.available THEN copy[t] ELSE Absent} ELSE {})
    BY <2>1
  <2> HIDE DEF v
  <2> QED BY <1>1, <2>1, <2>4, <2>5, SameThread, ThreadInv
<1>4. CASE ~SnapshotGood(t)
  <2>1. answers' = [answers EXCEPT ![t] = {Absent}]
    BY <1>2, <1>4, SameThread DEF LookupCheck, Answer
  <2>2. ThreadTo(t, "ready", view[t], copy[t], before[t], tnext[t], {Absent})
    BY <1>4, <2>1, SameThread DEF LookupCheck, ThreadTo
  <2>3. {Absent} \subseteq (IF "ready" = "ready" /\ view[t].attempted
                               THEN {IF view[t].available THEN copy[t] ELSE Absent} ELSE {})
    BY <1>a
  <2> QED BY <1>1, <1>a, <2>2, <2>3, SameThread, ThreadInv
<1> QED BY <1>3, <1>4

-----------------------------------------------------------------------------
(* The theorems.                                                           *)

\* IInv is inductive.
LEMMA NextInv == IInv /\ [Next]_vars => IInv'
<1>1. ASSUME IInv, Next PROVE IInv'
  <2>1. CASE Control
    BY <1>1, <2>1, WriteWordInv, WriteEndInv, RevokeInv, LoadInv, StatusInv, PublishInv DEF Control
  <2>2. CASE Restart  BY <1>1, <2>2, RestartInv
  <2>3. ASSUME NEW t \in Threads, Invocation(t) PROVE IInv'
    BY <1>1, <2>3, BeginInv, LookupInv, AgainInv, StartInv, CopyInv, CheckInv, EndInv
    DEF Invocation, Looking
  <2> QED BY <1>1, <2>1, <2>2, <2>3 DEF Next
<1>2. ASSUME IInv, UNCHANGED vars PROVE IInv'
  <2>1. UNCHANGED ctlSide /\ UNCHANGED thrVars  BY <1>2 DEF vars, ctlSide
  <2>2. StoreTypes' /\ WriterTypes' /\ OddWhileWriting'  BY <1>2, <2>1, ControlFrame
  <2>3. ReaderTypes' /\ AttemptState' /\ AnswersAgree'  BY <1>2, <2>1, ReaderFrame DEF IInv, TypeOK
  <2>4. CopiedSoFar'  BY <1>2, <2>1 DEF IInv, CopiedSoFar, ctlSide, slotVars, thrVars
  <2> QED BY <2>2, <2>3, <2>4 DEF IInv, TypeOK
<1> QED BY <1>1, <1>2

\* The inductive invariant of the store.
THEOREM Invariance == Spec => []IInv
BY InitInv, NextInv, PTL DEF Spec

\* Every word, index, handle and sequence number stays in its range: in
\* particular the sequence number never wraps and no word is stored or copied
\* past the image.
THEOREM TypeCorrect == Spec => []TypeOK
<1>1. IInv => TypeOK  BY DEF IInv
<1> QED BY <1>1, Invariance, PTL

\* Only the checks after the copy make a snapshot available.
LEMMA OnlyCheckSucceeds ==
  ASSUME IInv, [Next]_vars, NEW t \in Threads, ~view[t].available, view'[t].available
  PROVE  LookupCheck(t) /\ SnapshotGood(t)
<1>0. view \in [Threads -> ViewRecord]  BY DEF IInv, TypeOK, ReaderTypes, ViewRecord
<1>1. view' # view  OBVIOUS
<1>2. ~Control
  BY <1>1 DEF Control, WriteWord, WriteEnd, Revoke, Load, Status, Publish, thrVars
<1>3. ~Restart
  <2>1. ASSUME Restart PROVE FALSE
    <3>1. view'[t] = NoView  BY <2>1 DEF Restart
    <3> QED BY <3>1 DEF NoView
  <2> QED BY <2>1
<1>4. PICK u \in Threads : Invocation(u)
  <2>1. ~UNCHANGED vars  BY <1>1 DEF vars, thrVars
  <2> QED BY <1>2, <1>3, <2>1 DEF Next
<1>5. ASSUME NEW h \in Handles, Begin(u, h) PROVE FALSE
  <2>1. view'[t] = view[t] \/ view'[t] = [NoView EXCEPT !.slot = h[2], !.handle = h]
    BY <1>0, <1>5 DEF Begin
  <2>2. ~[NoView EXCEPT !.slot = h[2], !.handle = h].available  BY DEF NoView
  <2> QED BY <2>1, <2>2
<1>6. ~End(u)
  <2>1. ASSUME End(u) PROVE view'[t] = view[t] \/ view'[t] = NoView  BY <1>0, <2>1 DEF End
  <2>2. ~NoView.available  BY DEF NoView
  <2> QED BY <2>1, <2>2
<1>7. ~Lookup(u)
  <2>1. ASSUME Lookup(u) PROVE FALSE
    <3>1. view' = [view EXCEPT ![u] = [view[u] EXCEPT !.attempted = TRUE]]
      BY <1>0, <2>1 DEF Lookup
    <3>2. [view[u] EXCEPT !.attempted = TRUE].available = view[u].available
      BY <1>0 DEF ViewRecord
    <3>3. view'[t] = view[t] \/ (u = t /\ view'[t] = [view[u] EXCEPT !.attempted = TRUE])
      BY <1>0, <3>1
    <3> QED BY <3>2, <3>3
  <2> QED BY <2>1
<1>8. ~LookupAgain(u) /\ ~LookupStart(u) /\ ~LookupCopy(u)
  BY <1>1 DEF LookupAgain, LookupStart, LookupCopy
<1>9. LookupCheck(u) /\ view' # view
  BY <1>1, <1>4, <1>5, <1>6, <1>7, <1>8 DEF Invocation, Looking
<1>10. SnapshotGood(u) /\ view' = [view EXCEPT ![u].available = TRUE]
  BY <1>9 DEF LookupCheck
<1>11. u = t
  BY <1>0, <1>10
<1> QED BY <1>9, <1>10, <1>11

\* A snapshot that passes the checks is what its slot holds.
LEMMA GoodSnapshot ==
  ASSUME IInv, NEW t \in Threads, LookupCheck(t), SnapshotGood(t)
  PROVE  HoldsNow(t) /\ view[t].slot \in Slots
<1> DEFINE s == view[t].slot
<1>1. s \in Slots /\ IsImage(copy[t]) /\ IsImage(words[s])
  BY SameThread DEF IInv, TypeOK, StoreTypes
<1>2. tpc[t] = "check" /\ before[t] = sequence[s] /\ Instance(copy[t]) = view[t].handle
  BY DEF LookupCheck, SnapshotGood
<1>3. before[t] % 2 = 0 /\ \A w \in Words : copy[t][w] = words[s][w]
  BY <1>2 DEF IInv, CopiedSoFar
<1>4. copy[t] = words[s]  BY <1>1, <1>3 DEF IsImage
<1>5. wpc # "idle" => wr.slot # s  BY <1>1, <1>2, <1>3 DEF IInv, OddWhileWriting
<1> QED BY <1>1, <1>2, <1>4, <1>5 DEF HoldsNow

\* The seqlock is correct for every interleaving: a lookup succeeds only with
\* the whole image its slot holds at that step.
THEOREM WholeSnapshots == Spec => WholeAndCurrent
<1>1. ASSUME IInv, [Next]_vars, NEW t \in Threads, ~view[t].available, view'[t].available
      PROVE  HoldsNow(t)
  <2>1. LookupCheck(t) /\ SnapshotGood(t)  BY <1>1, OnlyCheckSucceeds
  <2> QED BY <1>1, <2>1, GoodSnapshot
<1>2. IInv /\ [Next]_vars
        => [\A t \in Threads : ~view[t].available /\ view'[t].available => HoldsNow(t)]_vars
  BY <1>1
<1> QED BY <1>2, Invariance, PTL DEF Spec, WholeAndCurrent

\* All lookups of one invocation are answered from one snapshot.
THEOREM OneSnapshot == Spec => []OneSnapshotPerCall
<1>1. IInv => OneSnapshotPerCall
  <2> SUFFICES ASSUME IInv, NEW t \in Threads PROVE Cardinality(answers[t]) <= 1
    BY DEF OneSnapshotPerCall
  <2> DEFINE x == IF view[t].available THEN copy[t] ELSE Absent
  <2>1. answers[t] = {} \/ answers[t] = {x}
    BY DEF IInv, AnswersAgree
  <2>2. Cardinality({}) = 0 /\ Cardinality({x}) = 1
    BY FS_EmptySet, FS_Singleton
  <2> QED BY <2>1, <2>2
<1> QED BY <1>1, Invariance, PTL

-----------------------------------------------------------------------------
(* Rows and revisions.  What a program reads was made for it because every *)
(* image, stored, being stored or copied, carries rows for the program its *)
(* instance was issued to, and an instance, once issued, keeps its owner.  *)

\* An instance that this process has issued.
Known(h, n) == h \in Handles /\ h[1] <= n

\* The rows of an image are for the owner of its instance, in this session.
Meant(image, n, ses, own) ==
  \/ Entries(image) = 0
  \/ /\ Known(Instance(image), n)
     /\ \A w \in 3 .. Entries(image) + 2 :
          image[w] = [session |-> ses, program |-> own[Instance(image)]]

\* A bound slot is bound to an issued instance and has its owner's hash.
StoreMeant ==
  \A s \in Slots : current[s].instance # NoHandle =>
    Known(current[s].instance, issued) /\ sha[s] = owner[current[s].instance]

\* The write under way has rows for the owner of the instance it is for, and
\* for the instance the slot is bound to it is a later revision.
WriterMeant ==
  wpc # "idle" =>
    /\ Meant(wr.image, issued, session, owner)
    /\ Instance(wr.image) # NoHandle =>
         /\ Known(Instance(wr.image), issued) /\ wr.sha = owner[Instance(wr.image)]
         /\ Instance(wr.image) = current[wr.slot].instance =>
              Revision(wr.image) > current[wr.slot].revision

\* A slot holds rows that are meant for its instance or, while it is being
\* written, the words of the write that are already stored.
WordsMeant ==
  \A s \in Slots :
    IF wpc # "idle" /\ wr.slot = s
      THEN /\ \A w \in Words : w < wnext => words[s][w] = wr.image[w]
           /\ wpc = "end" => wnext = RowMax + 3
      ELSE Meant(words[s], issued, session, owner)

\* So does an available snapshot, and it is of the thread's own instance.
ViewMeant ==
  \A t \in Threads : view[t].available =>
    Meant(copy[t], issued, session, owner) /\ Instance(copy[t]) = view[t].handle

MInv == IInv /\ StoreMeant /\ WriterMeant /\ WordsMeant /\ ViewMeant

\* The parts of an image.
LEMMA ImageParts ==
  ASSUME NEW rev, NEW h, NEW n \in 0 .. RowMax, NEW row
  PROVE  /\ Revision(Image(rev, h, n, row)) = rev /\ Instance(Image(rev, h, n, row)) = h
         /\ Entries(Image(rev, h, n, row)) = n
         /\ \A w \in 3 .. n + 2 : Image(rev, h, n, row)[w] = row
<1>0. RowMax \in Nat \ {0}  BY ConfigStoreAssumption DEF ConfigStoreAssumption
<1>1. 0 \in Words /\ 1 \in Words /\ 2 \in Words  BY <1>0 DEF Words
<1>2. ASSUME NEW w \in 3 .. n + 2 PROVE Image(rev, h, n, row)[w] = row
  <2>1. w \in Words /\ w # 0 /\ w # 1 /\ w # 2 /\ w - 2 <= n  BY <1>0 DEF Words
  <2> QED BY <2>1 DEF Image
<1> QED BY <1>1, <1>2 DEF Image, Revision, Instance, Entries

\* An empty image is meant for anybody.
LEMMA EmptyMeant ==
  ASSUME NEW rev, NEW h, NEW n, NEW ses, NEW own
  PROVE  Meant(Image(rev, h, 0, NoRow), n, ses, own)
<1>1. 0 \in 0 .. RowMax  BY ConfigStoreAssumption DEF ConfigStoreAssumption
<1> QED BY <1>1, ImageParts DEF Meant

\* The zero image of a revoked slot and of a fresh process.
LEMMA ZeroMeant ==
  /\ \A n, ses, own : Meant(ZeroImage, n, ses, own)
  /\ Instance(ZeroImage) = NoHandle
<1>1. 0 \in 0 .. RowMax  BY ConfigStoreAssumption DEF ConfigStoreAssumption
<1> QED BY <1>1, ImageParts, EmptyMeant DEF ZeroImage

\* Issuing further instances leaves every issued one to its owner.
Extends(n, own, m, own2) == n <= m /\ \A h \in Handles : h[1] <= n => own2[h] = own[h]

LEMMA MeantKept ==
  ASSUME NEW image, NEW ses, NEW n \in Nat, NEW m \in Nat, NEW own, NEW own2,
         Extends(n, own, m, own2), Meant(image, n, ses, own)
  PROVE  Meant(image, m, ses, own2)
<1>1. ASSUME NEW h, Known(h, n) PROVE Known(h, m) /\ own2[h] = own[h]
  <2>1. h \in Handles /\ h[1] <= n  BY <1>1 DEF Known
  <2>2. h[1] \in Nat  BY <2>1, ConfigStoreAssumption DEF Handles, ConfigStoreAssumption
  <2> QED BY <2>1, <2>2 DEF Known, Extends
<1> QED BY <1>1 DEF Meant

\* What is known stays known, of the same owner.
LEMMA KnownKept ==
  ASSUME NEW h, NEW n \in Nat, NEW m \in Nat, NEW own, NEW own2, Extends(n, own, m, own2),
         Known(h, n)
  PROVE  Known(h, m) /\ own2[h] = own[h]
<1>1. h \in Handles /\ h[1] <= n  BY DEF Known
<1>2. h[1] \in Nat  BY <1>1, ConfigStoreAssumption DEF Handles, ConfigStoreAssumption
<1> QED BY <1>1, <1>2 DEF Known, Extends

\* Steps that change neither the store nor the writer leave both as they were.
LEMMA MeantFrame ==
  ASSUME StoreMeant, WriterMeant, WordsMeant, UNCHANGED <<slotVars, wrVars>>
  PROVE  StoreMeant' /\ WriterMeant' /\ WordsMeant'
BY DEF StoreMeant, WriterMeant, WordsMeant, slotVars, wrVars

\* A load that comes to nothing has only drawn an instance.
LEMMA DrawnMeant ==
  ASSUME MInv, Extends(issued, owner, issued', owner'), issued' \in Nat, issued \in Nat,
         UNCHANGED <<words, current, sha, session, view, copy>>
  PROVE  /\ StoreMeant' /\ ViewMeant'
         /\ \A s \in Slots : ~(wpc # "idle" /\ wr.slot = s) => Meant(words'[s], issued', session', owner')
<1>1. StoreMeant'
  <2> SUFFICES ASSUME NEW s \in Slots, current[s].instance # NoHandle
               PROVE  Known(current[s].instance, issued') /\ sha[s] = owner'[current[s].instance]
    BY DEF StoreMeant
  <2>1. Known(current[s].instance, issued) /\ sha[s] = owner[current[s].instance]
    BY DEF MInv, StoreMeant
  <2> QED BY <2>1, KnownKept
<1>2. ViewMeant'
  <2> SUFFICES ASSUME NEW t \in Threads, view[t].available
               PROVE  Meant(copy[t], issued', session, owner') /\ Instance(copy[t]) = view[t].handle
    BY DEF ViewMeant
  <2>1. Meant(copy[t], issued, session, owner) /\ Instance(copy[t]) = view[t].handle
    BY DEF MInv, ViewMeant
  <2> QED BY <2>1, MeantKept
<1>3. ASSUME NEW s \in Slots, ~(wpc # "idle" /\ wr.slot = s)
      PROVE  Meant(words[s], issued', session, owner')
  <2>1. Meant(words[s], issued, session, owner)  BY <1>3 DEF MInv, WordsMeant
  <2> QED BY <2>1, MeantKept
<1> QED BY <1>1, <1>2, <1>3

\* A write begins: no word of it is stored yet.
LEMMA BeginMeant ==
  ASSUME MInv, wpc = "idle", NEW s \in Slots, NEW image, IsImage(image), NEW p,
         WriteBegin(s, image, p), issued' \in Nat, issued \in Nat,
         Extends(issued, owner, issued', owner'),
         UNCHANGED <<words, current, sha, session, view, copy>>,
         Meant(image, issued', session, owner'),
         Instance(image) # NoHandle =>
           /\ Known(Instance(image), issued') /\ p = owner'[Instance(image)]
           /\ Instance(image) = current[s].instance => Revision(image) > current[s].revision
  PROVE  StoreMeant' /\ WriterMeant' /\ WordsMeant' /\ ViewMeant'
<1>1. wpc' = "words" /\ wnext' = 0 /\ wr'.slot = s /\ wr'.image = image /\ wr'.sha = p
  BY DEF WriteBegin
<1>2. /\ StoreMeant' /\ ViewMeant'
      /\ \A r \in Slots : Meant(words[r], issued', session, owner')
  BY DrawnMeant
<1>3. WriterMeant'  BY <1>1 DEF WriterMeant
<1>4. \A w \in Words : ~(w < 0)
  BY ConfigStoreAssumption DEF ConfigStoreAssumption, Words
<1>5. WordsMeant'  BY <1>1, <1>2, <1>4 DEF WordsMeant
<1> QED BY <1>2, <1>3, <1>5

\* Storing one word.
LEMMA WriteWordMeant == MInv /\ WriteWord => StoreMeant' /\ WriterMeant' /\ WordsMeant' /\ ViewMeant'
<1> SUFFICES ASSUME MInv, WriteWord PROVE StoreMeant' /\ WriterMeant' /\ WordsMeant' /\ ViewMeant'
  OBVIOUS
<1>0. RowMax \in Nat /\ wr.slot \in Slots /\ wnext \in Words
  BY ConfigStoreAssumption DEF ConfigStoreAssumption, MInv, IInv, TypeOK, WriterTypes, WriteWord
<1>1. /\ wpc = "words" /\ wpc' # "idle" /\ wnext' = wnext + 1
      /\ wpc' = "end" => wnext = RowMax + 2
      /\ UNCHANGED <<sequence, current, sha, issued, session, owner, wr, view, copy>>
  BY DEF WriteWord, thrVars
<1>2. words = [s \in Slots |-> words[s]] /\ \A s \in Slots : words[s] = [w \in Words |-> words[s][w]]
  BY DEF MInv, IInv, TypeOK, StoreTypes, IsImage
<1>3. words' = [words EXCEPT ![wr.slot] = [words[wr.slot] EXCEPT ![wnext] = wr.image[wnext]]]
  BY <1>0, <1>2 DEF WriteWord
<1>4. StoreMeant'  BY <1>1 DEF MInv, StoreMeant
<1>5. WriterMeant'  BY <1>1 DEF MInv, WriterMeant
<1>6. ViewMeant'  BY <1>1 DEF MInv, ViewMeant
<1>7. WordsMeant'
  <2> SUFFICES ASSUME NEW s \in Slots
               PROVE  IF wr.slot = s
                        THEN /\ \A w \in Words : w < wnext + 1 => words'[s][w] = wr.image[w]
                             /\ wpc' = "end" => wnext + 1 = RowMax + 3
                        ELSE Meant(words'[s], issued, session, owner)
    BY <1>1 DEF WordsMeant
  <2>1. CASE wr.slot # s
    <3>1. words'[s] = words[s]  BY <1>2, <1>3, <2>1
    <3> QED BY <2>1, <3>1 DEF MInv, WordsMeant
  <2>2. CASE wr.slot = s
    <3>1. \A w \in Words : w < wnext => words[s][w] = wr.image[w]
      BY <1>0, <1>1, <2>2 DEF MInv, WordsMeant
    <3>2. words'[s] = [words[s] EXCEPT ![wnext] = wr.image[wnext]]  BY <1>0, <1>2, <1>3, <2>2
    <3>3. ASSUME NEW w \in Words, w < wnext + 1 PROVE words'[s][w] = wr.image[w]
      <4>1. w < wnext \/ w = wnext  BY <1>0, <3>3 DEF Words
      <4> QED BY <1>0, <1>2, <3>1, <3>2, <4>1
    <3>4. wpc' = "end" => wnext + 1 = RowMax + 3  BY <1>0, <1>1
    <3> QED BY <2>2, <3>3, <3>4
  <2> QED BY <2>1, <2>2
<1> QED BY <1>4, <1>5, <1>6, <1>7

\* The end of a write: the slot holds the whole image.
LEMMA WriteEndMeant == MInv /\ WriteEnd => StoreMeant' /\ WriterMeant' /\ WordsMeant' /\ ViewMeant'
<1> SUFFICES ASSUME MInv, WriteEnd PROVE StoreMeant' /\ WriterMeant' /\ WordsMeant' /\ ViewMeant'
  OBVIOUS
<1>0. RowMax \in Nat /\ wr.slot \in Slots /\ IsImage(wr.image)
  BY ConfigStoreAssumption DEF ConfigStoreAssumption, MInv, IInv, TypeOK, WriterTypes
<1>1. wpc = "end" /\ wpc' = "idle" /\ UNCHANGED <<words, issued, session, owner, view, copy>>
  BY DEF WriteEnd, thrVars
<1> DEFINE c == [revision |-> Revision(wr.image), instance |-> Instance(wr.image)]
<1>2. /\ current' = [current EXCEPT ![wr.slot] = c] /\ sha' = [sha EXCEPT ![wr.slot] = wr.sha]
      /\ c.instance = Instance(wr.image)
  BY DEF WriteEnd
<1> HIDE DEF c
<1>3. /\ Meant(wr.image, issued, session, owner)
      /\ Instance(wr.image) # NoHandle =>
           Known(Instance(wr.image), issued) /\ wr.sha = owner[Instance(wr.image)]
  BY <1>1 DEF MInv, WriterMeant
<1>4. StoreMeant'
  <2> SUFFICES ASSUME NEW s \in Slots, current'[s].instance # NoHandle
               PROVE  Known(current'[s].instance, issued) /\ sha'[s] = owner[current'[s].instance]
    BY <1>1 DEF StoreMeant
  <2>1. current = [r \in Slots |-> current[r]] /\ sha = [r \in Slots |-> sha[r]]
    BY DEF MInv, IInv, TypeOK, StoreTypes
  <2>2. CASE s = wr.slot
    <3>1. current'[s] = c /\ sha'[s] = wr.sha  BY <1>0, <1>2, <2>1, <2>2
    <3> QED BY <1>2, <1>3, <3>1
  <2>3. CASE s # wr.slot
    <3>1. current'[s] = current[s] /\ sha'[s] = sha[s]  BY <1>2, <2>1, <2>3
    <3> QED BY <3>1 DEF MInv, StoreMeant
  <2> QED BY <2>2, <2>3
<1>5. WriterMeant'  BY <1>1 DEF WriterMeant
<1>6. WordsMeant'
  <2> SUFFICES ASSUME NEW s \in Slots PROVE Meant(words[s], issued, session, owner)
    BY <1>1 DEF WordsMeant
  <2>1. CASE s # wr.slot  BY <2>1 DEF MInv, WordsMeant
  <2>2. CASE s = wr.slot
    <3>1. wnext = RowMax + 3 /\ \A w \in Words : w < wnext => words[s][w] = wr.image[w]
      BY <1>0, <1>1, <2>2 DEF MInv, WordsMeant
    <3>2. \A w \in Words : words[s][w] = wr.image[w]
      <4>1. \A w \in Words : w < RowMax + 3  BY <1>0 DEF Words
      <4> QED BY <3>1, <4>1
    <3>3. IsImage(words[s])  BY DEF MInv, IInv, TypeOK, StoreTypes
    <3>4. words[s] = wr.image
      <4>1. words[s] = [w \in Words |-> words[s][w]] /\ wr.image = [w \in Words |-> wr.image[w]]
        BY <1>0, <3>3 DEF IsImage
      <4> QED BY <3>2, <4>1
    <3> QED BY <1>3, <3>4
  <2> QED BY <2>1, <2>2
<1>7. ViewMeant'  BY <1>1 DEF MInv, ViewMeant
<1> QED BY <1>4, <1>5, <1>6, <1>7

\* A load: the instance it draws is nobody else's.
LEMMA LoadMeant ==
  ASSUME MInv, NEW s \in Slots, NEW p \in Programs, Load(s, p)
  PROVE  StoreMeant' /\ WriterMeant' /\ WordsMeant' /\ ViewMeant'
<1>0. InstanceLimit \in Nat /\ RowMax \in Nat \ {0} /\ issued \in Nat /\ owner \in [Handles -> ProgramRange]
  BY ConfigStoreAssumption DEF ConfigStoreAssumption, MInv, IInv, TypeOK, StoreTypes
<1>1. /\ wpc = "idle" /\ issued < InstanceLimit
      /\ UNCHANGED <<words, current, sha, session, view, copy>>
  BY DEF Load, thrVars
<1> DEFINE h == <<issued + 1, s>>
<1>2. h \in Handles /\ h[1] = issued + 1  BY <1>0, <1>1 DEF Handles
<1>3. issued' = issued + 1 /\ owner' = [owner EXCEPT ![h] = p]
  BY <1>2 DEF Load, NewInstance
<1>4. issued' \in Nat  BY <1>0, <1>3
<1>5. ASSUME NEW g \in Handles, g[1] <= issued PROVE g # h
  <2>1. ~(issued + 1 <= issued)  BY <1>0
  <2> QED BY <1>2, <1>5, <2>1
<1>6. Extends(issued, owner, issued', owner')
  <2>1. \A g \in Handles : g[1] <= issued => owner'[g] = owner[g]  BY <1>0, <1>3, <1>5
  <2>2. issued <= issued'  BY <1>0, <1>3
  <2> QED BY <2>1, <2>2 DEF Extends
<1> DEFINE image == Image(0, NewInstance(s), 0, NoRow)
<1>7. CASE WriteBegin(s, image, p)
  <2>0. 0 \in 0 .. RowMax /\ NewInstance(s) = h  BY <1>0 DEF NewInstance
  <2>1. IsImage(image)
    BY <1>0, <1>2, <2>0, ConstantTypes, ImageTypes DEF HandleRange
  <2>2. Instance(image) = h  BY <2>0, ImageParts
  <2>3. Meant(image, issued', session, owner')  BY EmptyMeant
  <2>4. Known(h, issued') /\ p = owner'[h]
    <3>1. h[1] <= issued'  BY <1>0, <1>2, <1>3
    <3> QED BY <1>0, <1>2, <1>3, <3>1 DEF Known
  <2>5. h # current[s].instance
    <3>1. ASSUME h = current[s].instance PROVE FALSE
      <4>1. h # NoHandle
        <5>1. issued + 1 # 0  BY <1>0
        <5> QED BY <5>1 DEF NoHandle
      <4>2. Known(h, issued)  BY <3>1, <4>1 DEF MInv, StoreMeant
      <4> QED BY <1>5, <4>2 DEF Known
    <3> QED BY <3>1
  <2> HIDE DEF image, h
  <2> QED BY <1>0, <1>1, <1>4, <1>6, <1>7, <2>1, <2>2, <2>3, <2>4, <2>5, BeginMeant
<1>8. CASE UNCHANGED <<sequence, wrVars>>
  <2>1. /\ StoreMeant' /\ ViewMeant'
        /\ \A r \in Slots : Meant(words'[r], issued', session', owner')
    BY <1>0, <1>1, <1>4, <1>6, DrawnMeant
  <2>2. WriterMeant' /\ WordsMeant'  BY <1>1, <1>8, <2>1 DEF WriterMeant, WordsMeant, wrVars
  <2> QED BY <2>1, <2>2
<1> QED BY <1>7, <1>8 DEF Load

\* Revoke writes an empty image for nobody.
LEMMA RevokeMeant ==
  ASSUME MInv, NEW s \in Slots, Revoke(s)
  PROVE  StoreMeant' /\ WriterMeant' /\ WordsMeant' /\ ViewMeant'
<1>1. /\ wpc = "idle" /\ WriteBegin(s, ZeroImage, sha[s])
      /\ UNCHANGED <<words, current, sha, issued, session, owner, view, copy>>
  BY DEF Revoke, thrVars
<1>2. issued \in Nat  BY ConfigStoreAssumption DEF ConfigStoreAssumption, MInv, IInv, TypeOK, StoreTypes
<1>3. Extends(issued, owner, issued', owner')  BY <1>1, <1>2 DEF Extends
<1>4. IsImage(ZeroImage)  BY ConstantTypes
<1> QED BY <1>1, <1>2, <1>3, <1>4, ZeroMeant, BeginMeant

\* Publish: the checks make the client's program the owner of the slot's
\* instance, and its revision a later one.
LEMMA PublishMeant ==
  ASSUME MInv, NEW c \in Clients, NEW n \in 0 .. RowMax, NEW v \in 0 .. RevisionLimit, Publish(c, n, v)
  PROVE  StoreMeant' /\ WriterMeant' /\ WordsMeant' /\ ViewMeant'
<1> DEFINE r == know[c]
           row == [session |-> r.session, program |-> r.sha]
           image == Image(v, r.instance, n, row)
<1>1. /\ wpc = "idle" /\ MayPublish(r, r.slot, v) /\ WriteBegin(r.slot, image, sha[r.slot])
      /\ UNCHANGED <<words, current, sha, issued, session, owner, view, copy>>
  BY DEF Publish, thrVars
<1>2. r \in [session : 0 .. SessionLimit, slot : Slots, instance : HandleRange,
              revision : Nat, sha : ProgramRange]
  BY DEF MInv, IInv, TypeOK, WriterTypes
<1>3. row \in Rows  BY <1>2 DEF Rows, ProgramRange
<1>4. v \in Nat /\ r.instance \in HandleRange /\ r.slot \in Slots
  BY <1>2, ConfigStoreAssumption DEF ConfigStoreAssumption
<1>5. IsImage(image)  BY <1>3, <1>4, ImageTypes
<1>6. /\ Revision(image) = v /\ Instance(image) = r.instance /\ Entries(image) = n
      /\ \A w \in 3 .. n + 2 : image[w] = row
  BY ImageParts
<1>7. /\ r.session = session /\ current[r.slot].instance # NoHandle
      /\ r.instance = current[r.slot].instance /\ r.sha = sha[r.slot]
      /\ r.revision = current[r.slot].revision /\ v > r.revision
  BY <1>1 DEF MayPublish
<1>8. Known(r.instance, issued) /\ sha[r.slot] = owner[r.instance]
  BY <1>4, <1>7 DEF MInv, StoreMeant
<1>9. issued \in Nat  BY ConfigStoreAssumption DEF ConfigStoreAssumption, MInv, IInv, TypeOK, StoreTypes
<1>10. Extends(issued, owner, issued', owner')  BY <1>1, <1>9 DEF Extends
<1>11. row = [session |-> session, program |-> owner[r.instance]]  BY <1>7, <1>8
<1> HIDE DEF image, row, r
<1>12. Meant(image, issued, session, owner)  BY <1>6, <1>8, <1>11 DEF Meant
<1> QED BY <1>1, <1>4, <1>5, <1>6, <1>7, <1>8, <1>9, <1>10, <1>12, BeginMeant

\* A restart leaves no image and no binding.
LEMMA RestartMeant == Restart => StoreMeant' /\ WriterMeant' /\ WordsMeant' /\ ViewMeant'
<1> SUFFICES ASSUME Restart PROVE StoreMeant' /\ WriterMeant' /\ WordsMeant' /\ ViewMeant'
  OBVIOUS
<1>1. \A s \in Slots : current'[s].instance = NoHandle /\ words'[s] = ZeroImage  BY DEF Restart
<1>2. StoreMeant'  BY <1>1 DEF StoreMeant
<1>3. wpc' = "idle"  BY DEF Restart
<1>4. WriterMeant' /\ WordsMeant'  BY <1>1, <1>3, ZeroMeant DEF WriterMeant, WordsMeant
<1>5. \A t \in Threads : ~view'[t].available  BY DEF Restart, NoView
<1>6. ViewMeant'  BY <1>5 DEF ViewMeant
<1> QED BY <1>2, <1>4, <1>6

\* A snapshot that is available stays as it is while it is.
LEMMA SnapshotStays ==
  ASSUME IInv, NEW u \in Threads, Invocation(u), NEW t \in Threads,
         view[t].available, view'[t].available
  PROVE  copy'[t] = copy[t] /\ view'[t] = view[t]
<1>0. view \in [Threads -> ViewRecord] /\ copy = [x \in Threads |-> copy[x]]
  BY DEF IInv, TypeOK, ReaderTypes, ViewRecord
<1>1. view[t].attempted /\ tpc[t] = "ready"  BY DEF IInv, AttemptState
<1>2. CASE u = t
  <2>1. ~(\E h \in Handles : Begin(t, h)) /\ ~Lookup(t) /\ ~Looking(t)
    BY <1>1 DEF Begin, Lookup, Looking, LookupStart, LookupCopy, LookupCheck
  <2>2. ~End(t)
    <3>1. ASSUME End(t) PROVE view'[t] = NoView  BY <1>0, <3>1 DEF End
    <3> QED BY <3>1 DEF NoView
  <2>3. LookupAgain(t)  BY <1>2, <2>1, <2>2 DEF Invocation
  <2> QED BY <2>3 DEF LookupAgain
<1>3. CASE u # t
  <2>1. ASSUME NEW h \in Handles, Begin(u, h) PROVE copy'[t] = copy[t] /\ view'[t] = view[t]
    BY <1>0, <1>3, <2>1 DEF Begin
  <2>2. CASE Lookup(u)
    <3>1. view' = [view EXCEPT ![u] = [view[u] EXCEPT !.attempted = TRUE]]
      BY <1>0, <2>2 DEF Lookup
    <3> QED BY <1>0, <1>3, <2>2, <3>1 DEF Lookup
  <2>3. CASE LookupAgain(u)  BY <2>3 DEF LookupAgain
  <2>4. CASE LookupStart(u)  BY <2>4 DEF LookupStart
  <2>5. CASE LookupCopy(u)
    <3>1. view' = view /\ copy'[t] = copy[t]  BY <1>0, <1>3, <2>5 DEF LookupCopy
    <3> QED BY <3>1
  <2>6. CASE LookupCheck(u)
    <3>1. view' = view \/ view' = [view EXCEPT ![u] = [view[u] EXCEPT !.available = TRUE]]
      BY <1>0, <2>6 DEF LookupCheck
    <3> QED BY <1>0, <1>3, <2>6, <3>1 DEF LookupCheck
  <2>7. CASE End(u)  BY <1>0, <1>3, <2>7 DEF End
  <2> QED BY <2>1, <2>2, <2>3, <2>4, <2>5, <2>6, <2>7 DEF Invocation, Looking
<1> QED BY <1>2, <1>3

\* A step of a data-path thread.
LEMMA ThreadMeant ==
  ASSUME MInv, NEW u \in Threads, Invocation(u)
  PROVE  StoreMeant' /\ WriterMeant' /\ WordsMeant' /\ ViewMeant'
<1>1. UNCHANGED ctlSide
  BY DEF Invocation, Looking, Begin, Lookup, LookupAgain, LookupStart, LookupCopy, LookupCheck, End
<1>2. UNCHANGED <<slotVars, wrVars>>  BY <1>1 DEF ctlSide
<1>3. StoreMeant' /\ WriterMeant' /\ WordsMeant'  BY <1>2, MeantFrame DEF MInv
<1>4. UNCHANGED <<issued, session, owner>>  BY <1>2 DEF slotVars
<1>5. ViewMeant'
  <2> SUFFICES ASSUME NEW t \in Threads, view'[t].available
               PROVE  Meant(copy'[t], issued, session, owner) /\ Instance(copy'[t]) = view'[t].handle
    BY <1>4 DEF ViewMeant
  <2>1. CASE view[t].available
    <3>1. copy'[t] = copy[t] /\ view'[t] = view[t]  BY <2>1, SnapshotStays DEF MInv
    <3> QED BY <2>1, <3>1 DEF MInv, ViewMeant
  <2>2. CASE ~view[t].available
    <3>1. LookupCheck(t) /\ SnapshotGood(t)
      BY <2>2, OnlyCheckSucceeds DEF MInv, Next
    <3>2. HoldsNow(t) /\ view[t].slot \in Slots  BY <3>1, GoodSnapshot DEF MInv
    <3>3. copy[t] = words[view[t].slot] /\ Instance(copy[t]) = view[t].handle
          /\ ~(wpc # "idle" /\ wr.slot = view[t].slot)
      BY <3>2 DEF HoldsNow
    <3>4. Meant(copy[t], issued, session, owner)
      BY <3>2, <3>3 DEF MInv, WordsMeant
    <3>5. copy' = copy /\ view'[t].handle = view[t].handle
      <4>1. view \in [Threads -> ViewRecord]
        BY DEF MInv, IInv, TypeOK, ReaderTypes, ViewRecord
      <4>2. view' = [view EXCEPT ![t] = [view[t] EXCEPT !.available = TRUE]] /\ copy' = copy
        BY <3>1, <4>1 DEF LookupCheck
      <4>3. [view[t] EXCEPT !.available = TRUE].handle = view[t].handle  BY <4>1 DEF ViewRecord
      <4> QED BY <4>1, <4>2, <4>3
    <3> QED BY <3>3, <3>4, <3>5
  <2> QED BY <2>1, <2>2
<1> QED BY <1>3, <1>5

\* MInv is inductive.
LEMMA NextMeant == MInv /\ [Next]_vars => MInv'
<1> DEFINE Q == StoreMeant /\ WriterMeant /\ WordsMeant /\ ViewMeant
<1>1. ASSUME MInv, Next PROVE Q'
  <2>1. ASSUME NEW c \in Clients, NEW s \in Slots, Status(c, s) PROVE Q'
    <3>1. UNCHANGED <<slotVars, wrVars, thrVars>>  BY <2>1 DEF Status
    <3>2. ViewMeant'  BY <1>1, <3>1 DEF MInv, ViewMeant, slotVars, thrVars
    <3> QED BY <1>1, <3>1, <3>2, MeantFrame DEF MInv
  <2>2. CASE Control
    BY <1>1, <2>1, <2>2, WriteWordMeant, WriteEndMeant, RevokeMeant, LoadMeant, PublishMeant
    DEF Control
  <2>3. CASE Restart  BY <2>3, RestartMeant
  <2>4. ASSUME NEW t \in Threads, Invocation(t) PROVE Q'  BY <1>1, <2>4, ThreadMeant
  <2> QED BY <1>1, <2>2, <2>3, <2>4 DEF Next
<1>2. ASSUME MInv, UNCHANGED vars PROVE Q'
  <2>1. UNCHANGED <<slotVars, wrVars, thrVars>>  BY <1>2 DEF vars
  <2>2. ViewMeant'  BY <1>2, <2>1 DEF MInv, ViewMeant, slotVars, thrVars
  <2> QED BY <1>2, <2>1, <2>2, MeantFrame DEF MInv
<1>3. MInv /\ [Next]_vars => IInv'  BY NextInv DEF MInv
<1> QED BY <1>1, <1>2, <1>3 DEF MInv

LEMMA InitMeant == Init => MInv
<1> SUFFICES ASSUME Init PROVE MInv
  OBVIOUS
<1>1. wpc = "idle" /\ \A s \in Slots : current[s].instance = NoHandle /\ words[s] = ZeroImage
  BY DEF Init
<1>2. \A t \in Threads : ~view[t].available  BY DEF Init, NoView
<1> QED BY <1>1, <1>2, InitInv, ZeroMeant DEF MInv, StoreMeant, WriterMeant, WordsMeant, ViewMeant

\* Every image, stored, being stored or copied, carries rows for the owner of
\* its instance, and a bound slot the hash of its own.
THEOREM RowsInvariance == Spec => []MInv
BY InitMeant, NextMeant, PTL DEF Spec

\* The rows a program reads through ls_config_lookup were published for it, in
\* this session: for any number of slots, reloads, publishers and restarts.
THEOREM MeantRows == Spec => []RowsMeantForProgram
<1>1. ASSUME MInv PROVE RowsMeantForProgram
  <2> SUFFICES ASSUME NEW t \in Threads, view[t].available, NEW w \in 3 .. Entries(copy[t]) + 2
               PROVE  copy[t][w] = [session |-> session, program |-> owner[view[t].handle]]
    BY DEF RowsMeantForProgram
  <2>1. Meant(copy[t], issued, session, owner) /\ Instance(copy[t]) = view[t].handle
    BY <1>1 DEF MInv, ViewMeant
  <2>2. Entries(copy[t]) # 0  OBVIOUS
  <2> QED BY <2>1, <2>2 DEF Meant
<1> QED BY <1>1, RowsInvariance, PTL

\* ls_config_publish: no committed revision is replaced under its own number,
\* and the revisions of an instance only grow.
THEOREM GrowingRevisions == Spec => RevisionsGrow
<1> DEFINE A == \A s \in Slots :
                  /\ current'[s].instance = current[s].instance /\ current[s].instance # NoHandle
                  /\ current'[s] # current[s] \/ (wpc = "end" /\ wr.slot = s /\ wpc' = "idle")
                  => current'[s].revision > current[s].revision
<1>1. ASSUME MInv, Next,
             NEW s \in Slots, current'[s].instance = current[s].instance,
             current[s].instance # NoHandle,
             current'[s] # current[s] \/ (wpc = "end" /\ wr.slot = s /\ wpc' = "idle")
      PROVE  current'[s].revision > current[s].revision
  <2>1. ~Restart
    <3>1. ASSUME Restart PROVE current'[s].instance = NoHandle  BY <3>1 DEF Restart
    <3> QED BY <1>1, <3>1
  <2>2. WriteEnd
    <3>1. ~WriteEnd => current' = current /\ ~(wpc = "end" /\ wpc' = "idle")
      BY <1>1, <2>1 DEF Next, Control, WriteWord, Revoke, Load, Status, Publish, Invocation, Looking,
        Begin, Lookup, LookupAgain, LookupStart, LookupCopy, LookupCheck, End, WriteBegin,
        ctlSide, slotVars, wrVars
    <3> QED BY <1>1, <3>1
  <2> DEFINE c == [revision |-> Revision(wr.image), instance |-> Instance(wr.image)]
  <2>3. current = [r \in Slots |-> current[r]]  BY <1>1 DEF MInv, IInv, TypeOK, StoreTypes
  <2>4. current' = [current EXCEPT ![wr.slot] = c] /\ wpc = "end"  BY <2>2 DEF WriteEnd
  <2>5. c.revision = Revision(wr.image) /\ c.instance = Instance(wr.image)  OBVIOUS
  <2> HIDE DEF c
  <2>6. s = wr.slot  BY <1>1, <2>3, <2>4
  <2>7. current'[s] = c  BY <2>3, <2>4, <2>6
  <2>8. Instance(wr.image) # NoHandle /\ Instance(wr.image) = current[wr.slot].instance
    BY <1>1, <2>5, <2>6, <2>7
  <2>9. Revision(wr.image) > current[s].revision
    BY <1>1, <2>4, <2>6, <2>8 DEF MInv, WriterMeant
  <2> QED BY <2>5, <2>7, <2>9
<1>2. MInv /\ [Next]_vars => [A]_vars  BY <1>1
<1> QED BY <1>2, RowsInvariance, PTL DEF Spec, RevisionsGrow
=============================================================================
