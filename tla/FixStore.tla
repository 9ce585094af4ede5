------------------------------ MODULE FixStore ------------------------------
(***************************************************************************)
(* The durable store of a FIX session over crashes of the process:         *)
(* class FileStore of exchangesim/fix/store.py, driven as Session._transmit*)
(* and the resets drive it.                                                *)
(*                                                                         *)
(* Two files: state.json, replaced atomically, and out.log, appended to.   *)
(* A crash may fall between the writes of one send, and may tear the       *)
(* record being appended.  A message is the serial number of the send that *)
(* made it.  _save_state and the append are steps; everything else is      *)
(* memory.                                                                 *)
(***************************************************************************)
EXTENDS Integers, Sequences

CONSTANTS MaxSends,     \* bound: messages ever sent
          MaxIn,        \* bound: inbound numbers
          MaxCrashes,   \* bound: crashes
          Tearing       \* may a crash tear the record being appended?

ASSUME StoreAssumption == /\ MaxSends \in Nat
                          /\ MaxIn \in Nat
                          /\ MaxCrashes \in Nat
                          /\ Tearing \in BOOLEAN

VARIABLES fileOut, fileIn,   \* FileStore._next_out, _next_in
          index,             \* _offsets: what get_outbound returns, by number
          savedOut, savedIn, \* state.json
          outLog,            \* out.log: records [seq, msg], msg = Torn if cut short
          step,              \* where a multi-write operation has got to
          sends,             \* messages ever made
          crashes,           \* crashes so far
          transmitted        \* what the peer was sent since the last reset, by number

memory   == << fileOut, fileIn, index >>
disk     == << savedOut, savedIn, outLog >>
fileVars == << fileOut, fileIn, index, savedOut, savedIn, outLog, step, sends,
               crashes, transmitted >>

Torn == 0
None == 0

Numbers == 1..(MaxSends + 1)

Empty == [n \in Numbers |-> None]

----------------------------------------------------------------------------
(* Session._transmit: store_outbound, set_next_out, then the transport *)

StoreOutbound ==
    /\ step = "idle"
    /\ sends < MaxSends
    /\ outLog' = Append(outLog, [seq |-> fileOut, msg |-> sends + 1])
    /\ index' = [index EXCEPT ![fileOut] = sends + 1]
    /\ sends' = sends + 1
    /\ step' = "stored"
    /\ UNCHANGED << fileOut, fileIn, savedOut, savedIn, crashes, transmitted >>

SetNextOut ==
    /\ step = "stored"
    /\ fileOut' = fileOut + 1
    /\ savedOut' = fileOut + 1
    /\ savedIn' = fileIn
    /\ step' = "saved"
    /\ UNCHANGED << fileIn, index, outLog, sends, crashes, transmitted >>

TransportSend ==
    /\ step = "saved"
    /\ transmitted' = [transmitted EXCEPT ![fileOut - 1] = sends]
    /\ step' = "idle"
    /\ UNCHANGED << memory, disk, sends, crashes >>

\* Mutant: the state is saved before the number is raised.
SaveThenCount ==
    /\ step = "idle"
    /\ fileIn < MaxIn
    /\ fileIn' = fileIn + 1
    /\ savedOut' = fileOut
    /\ savedIn' = fileIn
    /\ UNCHANGED << fileOut, index, outLog, step, sends, crashes, transmitted >>

SetNextIn ==
    /\ step = "idle"
    /\ fileIn < MaxIn
    /\ fileIn' = fileIn + 1
    /\ savedOut' = fileOut
    /\ savedIn' = fileIn + 1
    /\ UNCHANGED << fileOut, index, outLog, step, sends, crashes, transmitted >>

----------------------------------------------------------------------------
(* reset: the log is truncated, then the state saved *)

TruncateLog ==
    /\ step = "idle"
    /\ fileOut' = 1
    /\ fileIn' = 1
    /\ index' = Empty
    /\ outLog' = << >>
    /\ step' = "truncated"
    /\ transmitted' = Empty
    /\ UNCHANGED << savedOut, savedIn, sends, crashes >>

SaveReset ==
    /\ step = "truncated"
    /\ savedOut' = fileOut
    /\ savedIn' = fileIn
    /\ step' = "idle"
    /\ UNCHANGED << memory, outLog, sends, crashes, transmitted >>

----------------------------------------------------------------------------
(* Crash and open *)

\* _index_log stops at the first record that is cut short: what follows it is not
\* aligned with the reader any more.
Readable(records) ==
    SubSeq(records, 1,
           CHOOSE n \in 0..Len(records) :
               /\ \A i \in 1..n : records[i].msg # Torn
               /\ n < Len(records) => records[n + 1].msg = Torn)

\* A number that was stored twice is read from its last record.
IndexOf(records) ==
    [n \in Numbers |->
        LET hits == {i \in 1..Len(records) : records[i].seq = n}
        IN  IF hits = {} THEN None
            ELSE records[CHOOSE i \in hits : \A j \in hits : i >= j].msg]

\* The log as a crash may leave it: untouched, or, in the middle of an append,
\* with its last record cut short.
LogAfterCrash ==
    IF Tearing /\ step = "stored"
    THEN {outLog, [outLog EXCEPT ![Len(outLog)].msg = Torn]}
    ELSE {outLog}

\* The process dies and FileStore.open reads what it left.
CrashAndOpen ==
    /\ crashes < MaxCrashes
    /\ \E records \in LogAfterCrash :
          /\ outLog' = records
          /\ index' = IndexOf(Readable(records))
    /\ fileOut' = savedOut
    /\ fileIn' = savedIn
    /\ step' = "idle"
    /\ crashes' = crashes + 1
    /\ UNCHANGED << savedOut, savedIn, sends, transmitted >>

----------------------------------------------------------------------------

StoreInit ==
    /\ fileOut = 1 /\ fileIn = 1
    /\ index = Empty
    /\ savedOut = 1 /\ savedIn = 1
    /\ outLog = << >>
    /\ step = "idle"
    /\ sends = 0
    /\ crashes = 0
    /\ transmitted = Empty

StoreNext ==
    \/ StoreOutbound
    \/ SetNextOut
    \/ TransportSend
    \/ SetNextIn
    \/ TruncateLog
    \/ SaveReset
    \/ CrashAndOpen

StoreSpec == StoreInit /\ [][StoreNext]_fileVars

----------------------------------------------------------------------------
(* Properties *)

\* "every outbound message must remain retrievable so a client's ResendRequest can
\* be answered" (store.py): what get_outbound returns for a number below next_out
\* is what the peer was sent under it, over any crashes.
EveryMessageRetrievable ==
    \A n \in Numbers :
        transmitted[n] # None => n < fileOut /\ index[n] = transmitted[n]

\* "A FIX session's sequence numbers must survive a process restart" (store.py):
\* no number is ever transmitted with a second message.
NumbersTransmittedOnce ==
    [][\A n \in Numbers :
         transmitted[n] # None => transmitted'[n] \in {transmitted[n], None}]_fileVars

\* An inbound number that was saved as received is never expected again, except by
\* a reset.
InboundNeverRepeats ==
    [][fileIn' < fileIn => fileIn' = 1 /\ outLog' = << >>]_fileVars

\* A crash anywhere costs neither a message nor a number.
CrashesLoseNothing ==
    /\ []EveryMessageRetrievable
    /\ NumbersTransmittedOnce
    /\ InboundNeverRepeats

=============================================================================
