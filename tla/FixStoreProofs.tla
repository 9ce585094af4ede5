--------------------------- MODULE FixStoreProofs ---------------------------
(***************************************************************************)
(* What the store keeps over any number of sends, resets and crashes.      *)
(***************************************************************************)
EXTENDS FixStore, TLAPS

Records == [seq : Nat, msg : Nat]

----------------------------------------------------------------------------
(* Numbers: nothing here depends on what out.log still holds *)

\* state.json is behind the memory only between the truncation and the save of a
\* reset, and a number is transmitted only once state.json is past it.
NumbersInv ==
    /\ fileOut \in Nat \ {0} /\ fileIn \in Nat \ {0}
    /\ savedOut \in Nat \ {0} /\ savedIn \in Nat \ {0}
    /\ sends \in Nat /\ sends <= MaxSends
    /\ step \in {"idle", "stored", "saved", "truncated"}
    /\ step # "truncated" => savedOut = fileOut /\ savedIn = fileIn
    /\ step = "truncated" => fileOut = 1 /\ fileIn = 1
    /\ fileOut <= sends + 1 /\ savedOut <= sends + 1
    /\ step = "stored" => fileOut <= sends
    /\ step = "saved" => fileOut > 1
    /\ transmitted \in [Numbers -> Nat]
    /\ \A n \in Numbers :
         transmitted[n] # None =>
             /\ step # "truncated"
             /\ n < fileOut
             /\ step = "saved" => n < fileOut - 1

\* It holds of a new store.
LEMMA NumbersInit == StoreInit => NumbersInv
BY StoreAssumption DEF StoreInit, NumbersInv, Empty, None

\* Every step keeps it.
LEMMA NumbersNext == NumbersInv /\ [StoreNext]_fileVars => NumbersInv'
<1> SUFFICES ASSUME NumbersInv, [StoreNext]_fileVars PROVE NumbersInv'
  OBVIOUS
<1>1. CASE StoreOutbound
  BY <1>1, StoreAssumption DEF StoreOutbound, NumbersInv
<1>2. CASE SetNextOut
  <2>1. /\ fileOut' = fileOut + 1 /\ savedOut' = fileOut + 1 /\ fileOut \in Nat
        /\ fileOut > 0 /\ fileOut <= sends /\ step' = "saved"
        /\ savedIn' = fileIn
        /\ UNCHANGED << fileIn, sends, transmitted >>
    BY <1>2 DEF SetNextOut, NumbersInv
  <2>2. \A n \in Numbers : transmitted[n] # None => n < fileOut
    BY DEF NumbersInv
  <2>3. \A n \in Numbers : transmitted'[n] # None =>
            /\ step' # "truncated" /\ n < fileOut'
            /\ step' = "saved" => n < fileOut' - 1
    BY <2>1, <2>2 DEF Numbers
  <2>4. transmitted' \in [Numbers -> Nat]
    BY <2>1 DEF NumbersInv
  <2> QED
    BY <2>1, <2>3, <2>4 DEF NumbersInv
<1>3. CASE TransportSend
  <2>1. /\ fileOut - 1 \in Numbers /\ fileOut \in Nat /\ sends \in Nat
        /\ transmitted \in [Numbers -> Nat]
    BY <1>3, StoreAssumption DEF TransportSend, NumbersInv, Numbers
  <2>2. /\ transmitted' \in [Numbers -> Nat]
        /\ \A n \in Numbers : n # fileOut - 1 => transmitted'[n] = transmitted[n]
    BY <1>3, <2>1 DEF TransportSend
  <2>3. \A n \in Numbers : transmitted'[n] # None => n < fileOut
    BY <2>1, <2>2 DEF NumbersInv, Numbers
  <2> QED
    BY <1>3, <2>2, <2>3 DEF TransportSend, NumbersInv, memory, disk
<1>4. CASE SetNextIn
  BY <1>4 DEF SetNextIn, NumbersInv
<1>5. CASE TruncateLog
  BY <1>5 DEF TruncateLog, NumbersInv, Empty, None
<1>6. CASE SaveReset
  BY <1>6 DEF SaveReset, NumbersInv, memory
<1>7. CASE CrashAndOpen
  BY <1>7 DEF CrashAndOpen, NumbersInv
<1>8. CASE UNCHANGED fileVars
  BY <1>8 DEF fileVars, NumbersInv
<1> QED
  BY <1>1, <1>2, <1>3, <1>4, <1>5, <1>6, <1>7, <1>8 DEF StoreNext

\* A sequence number is never transmitted with a second message, wherever the
\* process dies and whether or not the record it was appending is torn.
THEOREM NumbersSurviveCrashes == StoreSpec => NumbersTransmittedOnce
<1>1. NumbersInv /\ [StoreNext]_fileVars =>
        [\A n \in Numbers :
           transmitted[n] # None => transmitted'[n] \in {transmitted[n], None}]_fileVars
  <2> SUFFICES ASSUME NumbersInv, StoreNext, NEW n \in Numbers, transmitted[n] # None
               PROVE  transmitted'[n] \in {transmitted[n], None}
    BY DEF fileVars
  <2>1. CASE TransportSend
    BY <2>1 DEF TransportSend, NumbersInv, Numbers
  <2>2. CASE TruncateLog
    BY <2>2 DEF TruncateLog, Empty
  <2> QED
    BY <2>1, <2>2 DEF StoreNext, StoreOutbound, SetNextOut, SetNextIn, SaveReset,
                      CrashAndOpen
<1> QED
  BY <1>1, NumbersInit, NumbersNext, PTL DEF StoreSpec, NumbersTransmittedOnce

\* The inbound number the session expects falls back only by a reset.
THEOREM InboundSurvivesCrashes == StoreSpec => InboundNeverRepeats
<1>1. NumbersInv /\ [StoreNext]_fileVars =>
        [fileIn' < fileIn => fileIn' = 1 /\ outLog' = << >>]_fileVars
  <2> SUFFICES ASSUME NumbersInv, StoreNext, fileIn' < fileIn
               PROVE  fileIn' = 1 /\ outLog' = << >>
    BY DEF fileVars
  <2>1. CASE SetNextIn
    BY <2>1 DEF SetNextIn, NumbersInv
  <2>2. CASE CrashAndOpen
    BY <2>2 DEF CrashAndOpen, NumbersInv
  <2>3. CASE TruncateLog
    BY <2>3 DEF TruncateLog
  <2> QED
    BY <2>1, <2>2, <2>3 DEF StoreNext, StoreOutbound, SetNextOut, TransportSend,
                            SaveReset, memory, NumbersInv
<1> QED
  BY <1>1, NumbersInit, NumbersNext, PTL DEF StoreSpec, InboundNeverRepeats

----------------------------------------------------------------------------
(* Messages: what out.log still holds, when no append is torn *)

\* The number n is read from record i, the last one of that number.
LastOf(records, n, i) ==
    /\ i \in 1..Len(records)
    /\ records[i].seq = n
    /\ \A j \in 1..Len(records) : records[j].seq = n => i >= j

\* The index agrees with the log.
IndexAgrees ==
    \A n \in Numbers :
        \/ /\ \A j \in 1..Len(outLog) : outLog[j].seq # n
           /\ index[n] = None
        \/ \E i \in 1..Len(outLog) : LastOf(outLog, n, i) /\ index[n] = outLog[i].msg

\* Every record is whole, the index agrees with the log, and what was transmitted
\* or is about to be is in the index.
MessagesInv ==
    /\ NumbersInv
    /\ Tearing = FALSE
    /\ outLog \in Seq(Records)
    /\ \A i \in 1..Len(outLog) : outLog[i].msg # Torn
    /\ index \in [Numbers -> Nat]
    /\ IndexAgrees
    /\ step = "stored" => index[fileOut] = sends
    /\ step = "saved" => index[fileOut - 1] = sends
    /\ EveryMessageRetrievable

\* A log without torn records is read to its end.
LEMMA ReadableWhole ==
    ASSUME NEW r \in Seq(Records), \A i \in 1..Len(r) : r[i].msg # Torn
    PROVE  Readable(r) = r
<1> DEFINE P(n) == /\ \A i \in 1..n : r[i].msg # Torn
                   /\ n < Len(r) => r[n + 1].msg = Torn
<1>1. Len(r) \in 0..Len(r) /\ P(Len(r))
  OBVIOUS
<1>2. \A n \in 0..Len(r) : P(n) => n = Len(r)
  OBVIOUS
<1>3. (CHOOSE n \in 0..Len(r) : P(n)) = Len(r)
  BY <1>1, <1>2
<1>4. SubSeq(r, 1, Len(r)) = r
  OBVIOUS
<1> QED
  BY <1>3, <1>4 DEF Readable

\* Reopening a log rebuilds the index the running process had.
LEMMA IndexRebuilt ==
    ASSUME outLog \in Seq(Records), index \in [Numbers -> Nat], IndexAgrees
    PROVE  IndexOf(outLog) = index
<1> DEFINE hits(n) == {i \in 1..Len(outLog) : outLog[i].seq = n}
           Value(n) == IF hits(n) = {} THEN None
                       ELSE outLog[CHOOSE i \in hits(n) :
                                     \A j \in hits(n) : i >= j].msg
<1>1. ASSUME NEW n \in Numbers PROVE Value(n) = index[n]
  <2>1. CASE /\ \A j \in 1..Len(outLog) : outLog[j].seq # n
             /\ index[n] = None
    BY <2>1
  <2>2. CASE \E i \in 1..Len(outLog) : LastOf(outLog, n, i) /\ index[n] = outLog[i].msg
    <3>1. PICK i \in 1..Len(outLog) : LastOf(outLog, n, i) /\ index[n] = outLog[i].msg
      BY <2>2
    <3>2. i \in hits(n) /\ \A j \in hits(n) : i >= j
      BY <3>1 DEF LastOf
    <3>3. \A k \in hits(n) : (\A j \in hits(n) : k >= j) => k = i
      BY <3>2
    <3>4. (CHOOSE k \in hits(n) : \A j \in hits(n) : k >= j) = i
      BY <3>2, <3>3
    <3>5. hits(n) # {}
      BY <3>2
    <3> QED
      BY <3>1, <3>4, <3>5
  <2> QED
    BY <1>1, <2>1, <2>2 DEF IndexAgrees
<1>2. IndexOf(outLog) = [n \in Numbers |-> Value(n)]
  BY DEF IndexOf
<1> QED
  BY <1>1, <1>2

\* It holds of a new store.
LEMMA MessagesInit == StoreInit /\ Tearing = FALSE => MessagesInv
<1> SUFFICES ASSUME StoreInit, Tearing = FALSE PROVE MessagesInv
  OBVIOUS
<1>1. NumbersInv
  BY NumbersInit
<1>2. IndexAgrees
  BY DEF StoreInit, IndexAgrees, Empty
<1>3. outLog \in Seq(Records) /\ index \in [Numbers -> Nat]
  BY DEF StoreInit, Empty, None
<1> QED
  BY <1>1, <1>2, <1>3 DEF StoreInit, MessagesInv, EveryMessageRetrievable, Empty

\* Every step keeps it.
LEMMA MessagesNext == MessagesInv /\ [StoreNext]_fileVars => MessagesInv'
<1> SUFFICES ASSUME MessagesInv, [StoreNext]_fileVars PROVE MessagesInv'
  OBVIOUS
<1>1. /\ NumbersInv /\ NumbersInv' /\ Tearing = FALSE /\ EveryMessageRetrievable
      /\ outLog \in Seq(Records) /\ index \in [Numbers -> Nat]
      /\ fileOut \in Nat /\ sends \in Nat /\ transmitted \in [Numbers -> Nat]
  BY NumbersNext DEF MessagesInv, NumbersInv
<1>2. CASE StoreOutbound
  <2> DEFINE rec == [seq |-> fileOut, msg |-> sends + 1]
  <2>1. rec \in Records /\ fileOut \in Numbers /\ sends + 1 # Torn
    BY <1>1, <1>2, StoreAssumption
       DEF StoreOutbound, NumbersInv, Records, Numbers, Torn
  <2>2. /\ outLog' = Append(outLog, rec)
        /\ outLog' \in Seq(Records)
        /\ Len(outLog) \in Nat
        /\ Len(outLog') = Len(outLog) + 1
        /\ outLog'[Len(outLog) + 1] = rec
        /\ \A i \in 1..Len(outLog) : outLog'[i] = outLog[i]
    BY <1>1, <1>2, <2>1 DEF StoreOutbound
  <2>3. /\ index' \in [Numbers -> Nat]
        /\ index'[fileOut] = sends + 1
        /\ \A n \in Numbers : n # fileOut => index'[n] = index[n]
    BY <1>1, <1>2, <2>1 DEF StoreOutbound
  <2>4. \A i \in 1..Len(outLog') : outLog'[i].msg # Torn
    <3> SUFFICES ASSUME NEW i \in 1..Len(outLog') PROVE outLog'[i].msg # Torn
      OBVIOUS
    <3>1. i \in 1..Len(outLog) \/ i = Len(outLog) + 1
      BY <2>2
    <3> QED
      BY <2>1, <2>2, <3>1 DEF MessagesInv
  <2>5. IndexAgrees'
    <3> SUFFICES ASSUME NEW n \in Numbers
                 PROVE  \/ /\ \A j \in 1..Len(outLog') : outLog'[j].seq # n
                           /\ index'[n] = None
                        \/ \E i \in 1..Len(outLog') :
                              LastOf(outLog', n, i) /\ index'[n] = outLog'[i].msg
      BY DEF IndexAgrees
    <3>1. CASE n = fileOut
      <4>1. Len(outLog) + 1 \in 1..Len(outLog')
        BY <2>2
      <4>2. LastOf(outLog', n, Len(outLog) + 1)
        BY <2>2, <3>1, <4>1 DEF LastOf
      <4> QED
        BY <2>2, <2>3, <3>1, <4>1, <4>2
    <3>2. CASE n # fileOut
      <4>1. \A j \in 1..Len(outLog') :
              outLog'[j].seq = n => j \in 1..Len(outLog) /\ outLog[j].seq = n
        <5> SUFFICES ASSUME NEW j \in 1..Len(outLog'), outLog'[j].seq = n
                     PROVE  j \in 1..Len(outLog) /\ outLog[j].seq = n
          OBVIOUS
        <5>1. j \in 1..Len(outLog) \/ j = Len(outLog) + 1
          BY <2>2
        <5>2. j # Len(outLog) + 1
          BY <2>2, <3>2
        <5> QED
          BY <2>2, <5>1, <5>2
      <4>2. CASE /\ \A j \in 1..Len(outLog) : outLog[j].seq # n
                 /\ index[n] = None
        BY <2>3, <3>2, <4>1, <4>2
      <4>3. CASE \E i \in 1..Len(outLog) :
                    LastOf(outLog, n, i) /\ index[n] = outLog[i].msg
        <5>1. PICK i \in 1..Len(outLog) :
                LastOf(outLog, n, i) /\ index[n] = outLog[i].msg
          BY <4>3
        <5>2. i \in 1..Len(outLog') /\ outLog'[i] = outLog[i]
          BY <2>2
        <5>3. LastOf(outLog', n, i)
          BY <4>1, <5>1, <5>2 DEF LastOf
        <5> QED
          BY <2>3, <3>2, <5>1, <5>2, <5>3
      <4> QED
        BY <4>2, <4>3 DEF MessagesInv, IndexAgrees
    <3> QED
      BY <3>1, <3>2
  <2>6. EveryMessageRetrievable'
    BY <1>1, <1>2, <2>3 DEF StoreOutbound, EveryMessageRetrievable, Numbers
  <2> QED
    BY <1>1, <1>2, <2>2, <2>3, <2>4, <2>5, <2>6 DEF StoreOutbound, MessagesInv
<1>3. CASE SetNextOut
  <2>1. EveryMessageRetrievable'
    BY <1>1, <1>3 DEF SetNextOut, EveryMessageRetrievable, Numbers
  <2> QED
    BY <1>1, <1>3, <2>1 DEF SetNextOut, MessagesInv, IndexAgrees
<1>4. CASE TransportSend
  <2>1. fileOut - 1 \in Numbers /\ index[fileOut - 1] = sends
    BY <1>1, <1>4, StoreAssumption DEF TransportSend, NumbersInv, Numbers, MessagesInv
  <2>2. /\ transmitted'[fileOut - 1] = sends
        /\ \A n \in Numbers : n # fileOut - 1 => transmitted'[n] = transmitted[n]
        /\ index' = index /\ fileOut' = fileOut
    BY <1>1, <1>4, <2>1 DEF TransportSend, memory
  <2>3. EveryMessageRetrievable'
    BY <1>1, <2>1, <2>2 DEF EveryMessageRetrievable
  <2> QED
    BY <1>1, <1>4, <2>3 DEF TransportSend, memory, disk, MessagesInv, IndexAgrees
<1>5. CASE SetNextIn
  BY <1>1, <1>5 DEF SetNextIn, MessagesInv, IndexAgrees, EveryMessageRetrievable
<1>6. CASE TruncateLog
  <2>1. outLog' \in Seq(Records) /\ index' \in [Numbers -> Nat] /\ IndexAgrees'
    BY <1>6 DEF TruncateLog, Empty, None, IndexAgrees
  <2> QED
    BY <1>1, <1>6, <2>1 DEF TruncateLog, MessagesInv, EveryMessageRetrievable, Empty
<1>7. CASE SaveReset
  BY <1>1, <1>7 DEF SaveReset, memory, MessagesInv, IndexAgrees,
                    EveryMessageRetrievable
<1>8. CASE CrashAndOpen
  <2>1. outLog' = outLog /\ index' = IndexOf(Readable(outLog))
    BY <1>1, <1>8 DEF CrashAndOpen, LogAfterCrash
  <2>2. Readable(outLog) = outLog
    BY <1>1, ReadableWhole DEF MessagesInv
  <2>3. index' = index
    BY <1>1, <2>1, <2>2, IndexRebuilt DEF MessagesInv
  <2>4. \A n \in Numbers : transmitted[n] # None => n < fileOut'
    BY <1>1, <1>8 DEF CrashAndOpen, NumbersInv
  <2>5. EveryMessageRetrievable'
    BY <1>8, <2>3, <2>4 DEF CrashAndOpen, MessagesInv, EveryMessageRetrievable
  <2> QED
    BY <1>1, <1>8, <2>1, <2>3, <2>5 DEF CrashAndOpen, MessagesInv, IndexAgrees
<1>9. CASE UNCHANGED fileVars
  BY <1>1, <1>9 DEF fileVars, MessagesInv, IndexAgrees, EveryMessageRetrievable
<1> QED
  BY <1>2, <1>3, <1>4, <1>5, <1>6, <1>7, <1>8, <1>9 DEF StoreNext

\* Every message the peer was sent can be resent, wherever the process dies, as
\* long as no append is torn.
THEOREM MessagesSurviveCrashes == StoreSpec /\ Tearing = FALSE => []EveryMessageRetrievable
<1>1. MessagesInv => EveryMessageRetrievable
  BY DEF MessagesInv
<1> QED
  BY <1>1, MessagesInit, MessagesNext, PTL DEF StoreSpec

\* The three together: as long as no append is torn, a crash at any point of any
\* sequence of sends, receipts and resets loses neither a message nor a number.
THEOREM StoreSurvivesCrashes == StoreSpec /\ Tearing = FALSE => CrashesLoseNothing
BY NumbersSurviveCrashes, InboundSurvivesCrashes, MessagesSurviveCrashes, PTL
   DEF CrashesLoseNothing

=============================================================================
