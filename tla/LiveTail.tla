------------------------------ MODULE LiveTail ------------------------------
(***************************************************************************)
(* One browser following one run (web.go): handleRun renders the log as it *)
(* is and an offset, handleStream sends what is appended after the offset  *)
(* over Server-Sent Events, while the execution goes on writing the log   *)
(* through its writers, ends, and its record is rewritten and perhaps      *)
(* pruned.                                                                 *)
(*                                                                         *)
(* To the viewer a byte of the log is its position.  The browser is what   *)
(* run.html and the standard of Server-Sent Events make it: it ends a line *)
(* of an event at a newline or at a carriage return.                       *)
(***************************************************************************)
EXTENDS LogWriter

CONSTANTS
  MaxWatched,  (* bounds the output of a run that somebody watches         *)
  Chunk,       (* sseChunk: bytes read per tick                            *)
  FlushAfter   (* sseFlushAfter: a longer line is sent in pieces           *)

ASSUME LiveTailAssumption ==
  /\ MaxWatched \in Nat /\ Chunk \in Nat \ {0} /\ FlushAfter \in Nat

VARIABLES
  record,    (* meta.json: running, torn while it is rewritten, final, or  *)
             (* gone with the directory                                    *)
  page,      (* handleRun: what it does next, then whether the page is live*)
  shown,     (* the bytes the page shows: 1..shown                         *)
  stream,    (* handleStream: what it does next                            *)
  offset,
  buf,       (* bytes read and not yet sent                                *)
  sent,      (* the bytes of the data events, in order                     *)
  added       (* those of them that the browser adds to the page            *)

(* output.log, which only grows until the prune takes it away.               *)
len == Len(file)
Byte == 1..len
lineEnds == {k \in Byte : file[k] \in {Newline, "notice"}}

runVars == <<writerVars, record>>
pageVars == <<page, shown>>
tailVars == <<offset, buf, sent, added>>
vars == <<runVars, pageVars, stream, tailVars>>

Init ==
  /\ WriterInit
  /\ record = "running"
  /\ page \in {"readRun", "notAsked"} /\ shown = 0
  /\ stream = "none"
  /\ offset = 0
  /\ buf = << >> /\ sent = << >> /\ added = {}

-----------------------------------------------------------------------------
(* The execution.                                                            *)

(* The command writes, and the writers pass it on.                           *)
WriteOutput ==
  /\ record = "running"
  /\ Write
  /\ page = "notAsked" \/ Len(input') <= MaxWatched
  /\ UNCHANGED <<record, pageVars, stream, tailVars>>

(* Its end, when all output is written: meta.json is emptied, written with   *)
(* the final status, and later removed by a prune.                           *)
Finish ==
  /\ rest = << >>
  /\ \/ record = "running" /\ record' = "torn"
     \/ record = "torn" /\ record' = "final"
  /\ UNCHANGED <<writerVars, pageVars, stream, tailVars>>

Prune ==
  /\ record = "final"
  /\ record' = "gone"
  /\ UNCHANGED <<writerVars, pageVars, stream, tailVars>>

-----------------------------------------------------------------------------
(* handleRun.                                                                *)

(* ReadRun: no record, no page.                                              *)
PageReadRun ==
  /\ page = "readRun"
  /\ page' = CASE record = "running" -> "tailLive"
               [] record = "final"   -> "tailDone"
               [] OTHER              -> "notFound"
  /\ UNCHANGED <<runVars, shown, stream, tailVars>>

(* readLogTail; without a log there is nothing to show.                      *)
PageTail ==
  /\ page \in {"tailLive", "tailDone"}
  /\ shown' = IF record = "gone" THEN 0 ELSE len
  /\ page' = IF page = "tailLive" THEN "stat" ELSE "done"
  /\ UNCHANGED <<runVars, stream, tailVars>>

(* Stat, a second look at the log: the offset the stream is asked to start   *)
(* from, 0 without a log.                                                    *)
PageStat ==
  /\ page = "stat"
  /\ offset' = IF record = "gone" THEN 0 ELSE len
  /\ page' = "live"
  /\ UNCHANGED <<runVars, shown, stream, buf, sent, added>>

(* Mutant: the stream starts from the beginning. *)
ConnectAtZero ==
  /\ page = "live" /\ stream = "none"
  /\ stream' = "read" /\ offset' = 0
  /\ UNCHANGED <<runVars, pageVars, buf, sent, added>>

(* The browser opens the stream, and gives up when the answer is 404, as it  *)
(* is for a job that a reload has removed.                                   *)
Connect ==
  /\ page = "live" /\ stream = "none"
  /\ stream' \in {"read", "left"}
  /\ UNCHANGED <<runVars, pageVars, tailVars>>

-----------------------------------------------------------------------------
(* handleStream.                                                             *)

Bytes(from, to) == [k \in 1..(to - from) |-> from + k]

(* The end of the last complete line in what is buffered, 0 if there is none.*)
LastLine(b) == Max({0} \cup {k \in DOMAIN b : b[k] \in lineEnds})

(* Mutant: what is no line is dropped. *)
DropUnsent(b) == << >>

(* What stays in the buffer after the complete lines are sent: the rest, or  *)
(* nothing when the rest is long enough to be sent as it is.                 *)
Unsent(b) ==
  LET left == SubSeq(b, LastLine(b) + 1, Len(b))
  IN IF Len(left) > FlushAfter THEN << >> ELSE left

Sent(b) ==
  IF Len(b) - LastLine(b) > FlushAfter THEN b ELSE SubSeq(b, 1, LastLine(b))

(* Byte q comes before p in its line, or is p.                               *)
InLine(q, p) == q <= p /\ \A k \in lineEnds : ~(q <= k /\ k < p)

(* What a carriage return costs: the browser takes the rest of the event for *)
(* a field it does not know.                                                 *)
Dropped(s) ==
  {p \in Range(s) \ lineEnds :
     \E q \in Range(s) : file[q] = Return /\ InLine(q, p)}

(* emit: one data event for each complete line in s, and one for a rest that *)
(* is sent without its end.                                                  *)
Emit(s) ==
  /\ sent' = sent \o s
  /\ added' = added \cup (Range(s) \ Dropped(s))

(* Mutant: the offset moves on by a whole chunk. *)
SkipChunk ==
  /\ stream = "read"
  /\ stream' = "check"
  /\ record # "gone"
  /\ LET b == buf \o Bytes(offset, Max({offset, Min({len, offset + Chunk})}))
     IN /\ offset' = offset + Chunk
        /\ buf' = Unsent(b)
        /\ Emit(Sent(b))
  /\ UNCHANGED <<runVars, pageVars>>

ReadChunk ==
  /\ stream = "read"
  /\ stream' = "check"
  /\ IF record = "gone" THEN UNCHANGED tailVars
     ELSE LET end == Max({offset, Min({len, offset + Chunk})})
              b == buf \o Bytes(offset, end)
          IN /\ offset' = end
             /\ buf' = Unsent(b)
             /\ Emit(Sent(b))
  /\ UNCHANGED <<runVars, pageVars>>

(* Mutant: the stream ends only at the end of a line. *)
SendEndAtLine ==
  /\ stream = "check" /\ record = "final" /\ buf = << >>
  /\ stream' = "ended"
  /\ UNCHANGED <<runVars, pageVars, tailVars>>

(* The run is over: send the rest of the buffer and the end event.           *)
SendEnd ==
  /\ stream = "check" /\ record = "final"
  /\ stream' = "ended"
  /\ Emit(buf)
  /\ UNCHANGED <<runVars, pageVars, offset, buf>>

(* Still running, or the record cannot be read: wait for the ticker.         *)
NextTick ==
  /\ stream = "check" /\ record # "final"
  /\ stream' = "read"
  /\ UNCHANGED <<runVars, pageVars, tailVars>>

(* The browser goes away.                                                    *)
Leave ==
  /\ stream \in {"read", "check"}
  /\ stream' = "left"
  /\ UNCHANGED <<runVars, pageVars, tailVars>>

Server == PageReadRun \/ PageTail \/ PageStat \/ ReadChunk \/ SendEnd \/ NextTick

Next ==
  \/ WriteOutput \/ Finish \/ Prune
  \/ Server
  \/ Connect \/ Leave

Spec == Init /\ [][Next]_vars

(* The handlers are scheduled and the ticker ticks; a rewrite of the record  *)
(* that has begun is finished.                                               *)
FairSpec == Spec /\ WF_vars(Server) /\ WF_vars(record = "torn" /\ Finish)

-----------------------------------------------------------------------------
(* Correctness.                                                              *)

(* The page and the stream never claim to be past the end of the log, and    *)
(* what is read and not yet sent never exceeds sseFlushAfter between two     *)
(* ticks (web.go:579 "bounds memory per connection").                        *)
TypeOK ==
  /\ WriterTypeOK
  /\ record \in {"running", "torn", "final", "gone"}
  /\ page \in {"notAsked", "readRun", "notFound", "tailLive", "tailDone", "stat", "live", "done"}
  /\ shown \in 0..len /\ offset \in 0..len
  /\ stream \in {"none", "read", "check", "ended", "left"}
  /\ buf \in Seq(Byte) /\ Len(buf) <= FlushAfter
  /\ sent \in Seq(Byte) /\ added \subseteq Byte

(* What the browser is sent, the page first.                                 *)
Viewed == Bytes(0, shown) \o sent

(* No byte of the log is sent to it twice or out of order, however the       *)
(* page, the stream and the command interleave.                              *)
NothingRepeated ==
  record # "gone" =>
    \A i \in 1..(Len(Viewed) - 1) : Viewed[i] < Viewed[i + 1]

(* The stream alone leaves nothing out: what it has sent and what it buffers *)
(* are the bytes from its first offset to where it has read.                 *)
StreamComplete ==
  stream \in {"read", "check"} =>
    LET s == sent \o buf
    IN s # << >> => s = Bytes(s[1] - 1, offset)

(* The longest log that is watched: a stamp for every byte, unless the limit *)
(* is lower.                                                                 *)
MaxByte ==
  IF Limit > 0 THEN Limit + Len(Notice) ELSE MaxWatched * (StampSize + 1)

(* A line that is complete is sent while the browser stays connected, every  *)
(* byte of it, unless the run ends first; and the browser shows it, up to    *)
(* the first carriage return.                                                *)
LinesArrive ==
  \A i \in 1..MaxByte :
    (stream = "read" /\ i > offset /\ \E k \in lineEnds : i <= k)
      ~> \/ /\ \E n \in DOMAIN sent : sent[n] = i
            /\ i \in added \/ \E q \in 1..i : file[q] = Return /\ InLine(q, i)
         \/ stream \in {"ended", "left"} \/ record # "running"

(* web.go:548 "sends a final end event once the run reaches a terminal       *)
(* status", though its record cannot be read while it is rewritten; only a   *)
(* prune between two ticks takes away what the stream waits for.             *)
StreamEnds ==
  (stream = "read" /\ record = "final") ~> (stream \in {"ended", "left"} \/ record = "gone")

(* web.go:548 "emits each complete line ... and sends a final end event":    *)
(* with the end event everything has been sent.  The code refutes it: bytes  *)
(* written after the chunk was read, before the status was, are left out.    *)
EndMeansAll ==
  stream = "ended" /\ record = "final" => offset = len
=============================================================================
