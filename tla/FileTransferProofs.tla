--------------------------- MODULE FileTransferProofs ---------------------------
(***************************************************************************)
(* What follows from the promise of FileTransfer, for files of every size; *)
(* Transfer keeps that promise.                                            *)
(***************************************************************************)
EXTENDS FileTransfer, TLAPS, SequenceTheorems

\* The stored chunks are those of the file, in order and without a gap.
InOrder == /\ file \in Seq(Nat) /\ Len(file) <= Total
           /\ \A i \in 1..Len(file) : file[i] = i - 1

\* What was handed over was complete, and is what the app backend has accepted.
CompleteWhenHanded == phase \in {"handed", "accepted"} => Len(file) = Total

ToldOfAccepted == told => phase = "accepted"

FileInv == InOrder /\ CompleteWhenHanded /\ ToldOfAccepted

LEMMA FileInvInit ==
  ASSUME Total \in Nat
  PROVE  FileInit => FileInv
BY DEF FileInit, FileInv, InOrder, CompleteWhenHanded, ToldOfAccepted

LEMMA FileInvStep ==
  ASSUME Total \in Nat
  PROVE  FileInv /\ [FileNext]_fileVars => FileInv'
<1> SUFFICES ASSUME FileInv, [FileNext]_fileVars
             PROVE  FileInv'
    OBVIOUS
<1> USE DEF FileInv, InOrder, CompleteWhenHanded, ToldOfAccepted
<1>1. CASE StoreNext
  <2>1. /\ Len(file) \in Nat /\ Len(file) < Total /\ file' = Append(file, Len(file))
        /\ phase = "open" /\ UNCHANGED <<phase, told>>
        BY <1>1, LenProperties DEF StoreNext
  <2>2. /\ file' \in Seq(Nat) /\ Len(file') = Len(file) + 1
        /\ \A i \in 1..Len(file) : file'[i] = file[i]
        /\ file'[Len(file) + 1] = Len(file)
        BY <2>1, AppendProperties
  <2>3. \A i \in 1..Len(file') : file'[i] = i - 1
        BY <2>1, <2>2
  <2>4. QED
        BY <2>1, <2>2, <2>3
<1>2. CASE HandFileOver
      BY <1>2 DEF HandFileOver
<1>3. CASE AcceptFile
      BY <1>3 DEF AcceptFile
<1>4. CASE FailTransfer
      BY <1>4 DEF FailTransfer
<1>5. CASE TellFinished
      BY <1>5 DEF TellFinished
<1>6. CASE UNCHANGED fileVars
      BY <1>6 DEF fileVars
<1>7. QED
      BY <1>1, <1>2, <1>3, <1>4, <1>5, <1>6 DEF FileNext

\* A transfer that keeps the promise hands over every byte of the file in its
\* place, and reports as finished only what the app backend has accepted.
THEOREM FileArrivesWhole ==
  ASSUME Total \in Nat
  PROVE  FileSpec => [](/\ \A i \in 1..Len(file) : file[i] = i - 1
                        /\ phase \in {"handed", "accepted"} => Len(file) = Total
                        /\ told => phase = "accepted")
<1>1. FileInv => /\ \A i \in 1..Len(file) : file[i] = i - 1
                 /\ phase \in {"handed", "accepted"} => Len(file) = Total
                 /\ told => phase = "accepted"
      BY DEF FileInv, InOrder, CompleteWhenHanded, ToldOfAccepted
<1>2. QED
      BY <1>1, FileInvInit, FileInvStep, PTL DEF FileSpec

=============================================================================
