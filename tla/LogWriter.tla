----------------------------- MODULE LogWriter -----------------------------
(***************************************************************************)
(* How a command's output reaches output.log (logwriter.go): a             *)
(* timestampWriter that starts every line with a timestamp, over a         *)
(* capWriter that stops at a limit.  The output arrives in the pieces that *)
(* the pipe delivers; one goroutine writes them, one call at a time.       *)
(*                                                                         *)
(* A byte is a newline, a carriage return or any other; a timestamp and    *)
(* the truncation notice are opaque bytes.                                 *)
(***************************************************************************)
EXTENDS Integers, SequencesExt

CONSTANTS
  Limit,      (* MaxLogBytes; 0 for none                                   *)
  StampSize,  (* bytes of a timestamp and its two blanks                   *)
  MaxPiece,   (* bounds a piece of output                                  *)
  MaxInput    (* bounds the output                                         *)

ASSUME LogWriterAssumption ==
  /\ Limit \in Nat /\ StampSize \in Nat \ {0}
  /\ MaxPiece \in Nat \ {0} /\ MaxInput \in Nat

Newline == "newline"
Return == "return"
Char == {Newline, Return, "other"}
Stamp == [i \in 1..StampSize |-> "stamp"]
Notice == <<"notice">>            \* it ends in a newline
LogByte == Char \cup {"stamp", "notice"}

VARIABLES
  input,        (* the output so far, the current piece included           *)
  rest,         (* what Write has still to pass on of the current piece    *)
  atLineStart,
  written, truncated,
  file

writerVars == <<input, rest, atLineStart, written, truncated, file>>

WriterInit ==
  /\ input = << >> /\ rest = << >>
  /\ atLineStart = TRUE
  /\ written = 0 /\ truncated = FALSE
  /\ file = << >>

(* capWriter.Write(p): what fits, and the notice before the first byte that  *)
(* does not. The code writes the two one after the other; a reader of the    *)
(* log that comes in between sees the notice at its next look.               *)
Cap(p) ==
  IF Limit = 0 \/ written + Len(p) <= Limit
  THEN file' = file \o p /\ written' = written + Len(p) /\ UNCHANGED truncated
  ELSE LET kept == SubSeq(p, 1, Limit - written)
       IN /\ file' = file \o kept \o IF truncated THEN << >> ELSE Notice
          /\ written' = written + Len(kept)
          /\ truncated' = TRUE

(* The pipe delivers a piece: Write is called.                               *)
Deliver ==
  /\ rest = << >>
  /\ \E n \in 1..MaxPiece : \E p \in [1..n -> Char] :
       /\ Len(input) + n <= MaxInput
       /\ rest' = p /\ input' = input \o p
  /\ UNCHANGED <<atLineStart, written, truncated, file>>

WriteStamp ==
  /\ rest # << >> /\ atLineStart
  /\ Cap(Stamp)
  /\ atLineStart' = FALSE
  /\ UNCHANGED <<input, rest>>

(* Mutant: every piece starts a line. *)
WriteAndRestart ==
  /\ rest # << >> /\ ~atLineStart
  /\ Cap(rest)
  /\ rest' = << >> /\ atLineStart' = TRUE
  /\ UNCHANGED input

(* The rest of the piece up to its first newline, or all of it.              *)
WriteLine ==
  /\ rest # << >> /\ ~atLineStart
  /\ LET ends == {i \in DOMAIN rest : rest[i] = Newline}
         n == IF ends = {} THEN Len(rest) ELSE Min(ends)
     IN /\ Cap(SubSeq(rest, 1, n))
        /\ rest' = SubSeq(rest, n + 1, Len(rest))
        /\ atLineStart' = (ends # {})
  /\ UNCHANGED input

Write == Deliver \/ WriteStamp \/ WriteLine

-----------------------------------------------------------------------------
(* The count capWriter goes by is the bytes it has written, the notice aside,*)
(* and it never passes the limit.                                            *)
WriterTypeOK ==
  /\ input \in Seq(Char) /\ rest \in Seq(Char)
  /\ atLineStart \in BOOLEAN /\ truncated \in BOOLEAN
  /\ file \in Seq(LogByte)
  /\ written = Len(file) - (IF truncated THEN Len(Notice) ELSE 0)
  /\ Limit > 0 => written <= Limit

(* Every line of a text with a timestamp in front.                           *)
Stamped(s) ==
  FlattenSeq([i \in DOMAIN s |->
                IF i = 1 \/ s[i - 1] = Newline THEN Stamp \o <<s[i]>> ELSE <<s[i]>>])

Capped(s) ==
  IF Limit = 0 \/ Len(s) <= Limit THEN s ELSE SubSeq(s, 1, Limit) \o Notice

(* The log is a function of the output alone: however the pipe cuts it into  *)
(* pieces, in the middle of a line or of what still fits, each line gets one *)
(* timestamp, and the notice comes once, and only when something is missing. *)
LogOfOutput == rest = << >> => file = Capped(Stamped(input))
=============================================================================
