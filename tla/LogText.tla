------------------------------ MODULE LogText ------------------------------
(***************************************************************************)
(* The text of logs on its way to a reader: a build's output into its file *)
(* (limitedLogWriter, internal/build/logcap.go), the file into events      *)
(* (drain, internal/api/logs.go), and podman's frames into lines           *)
(* (DemuxLogs, internal/podman/logs.go).                                   *)
(*                                                                         *)
(* A text is a sequence of symbols: "nl" and "cr" are the line feed and    *)
(* the carriage return, any other symbol is a piece of a line.             *)
(***************************************************************************)
EXTENDS Loops

CONSTANTS Cap,       \* maxLogBytes, in symbols
          Symbols

ASSUME LogTextAssumption == Cap \in Nat /\ {"nl", "cr", "notice"} \subseteq Symbols

Text == Seq(Symbols)

\* logTruncationNotice.
Notice == <<"nl", "notice", "nl">>

\* limitedLogWriter.Write: the log file after a write of p, when written
\* symbols of the build have reached it.
Forwarded(written, p) ==
    IF written >= Cap THEN <<>> ELSE SubSeq(p, 1, IF Len(p) < Cap - written THEN Len(p) ELSE Cap - written)

Limited(text, written, p) ==
    text \o Forwarded(written, p)
         \o (IF written < Cap /\ written + Len(Forwarded(written, p)) >= Cap THEN Notice ELSE <<>>)

\* strings.Split at line feeds: the complete lines of a text and what follows
\* the last of them.
Split == [acc \in [lines : Seq(Text), rest : Text] |-> [x \in Symbols |->
             IF x = "nl" THEN [lines |-> Append(acc.lines, acc.rest), rest |-> <<>>]
             ELSE [lines |-> acc.lines, rest |-> Append(acc.rest, x)]]]

Cut(text) == Loop(Split, [lines |-> <<>>, rest |-> <<>>], text)

Flush(rest) == IF rest = <<>> THEN <<>> ELSE <<rest>>

\* What a reader gets of a text when no more is to come.
Lines(text) == Cut(text).lines \o Flush(Cut(text).rest)

Without(text, symbols) == Gathered(Symbols, [x \in Symbols |-> IF x \in symbols THEN <<>> ELSE <<x>>], text)

\* drain: an event for each complete line and one for what follows them, each
\* without carriage returns, which a client would read as ends of line.
Drain(text) ==
    LET lines == Lines(text)
    IN  [i \in DOMAIN lines |-> Without(lines[i], {"cr"})]

\* streamName: the streams a client understands.
Streams == {"stdout", "stderr"}

On(stream, lines) == [i \in DOMAIN lines |-> [stream |-> stream, text |-> lines[i]]]

\* A whole frame, when partial holds each stream's unfinished line: the lines
\* that DemuxLogs emits and the unfinished lines it leaves.
Demux(partial, frame) ==
    IF frame.stream \notin Streams THEN [emitted |-> <<>>, partial |-> partial]
    ELSE LET cut == Cut(partial[frame.stream] \o frame.text)
         IN  [emitted |-> On(frame.stream, cut.lines), partial |-> [partial EXCEPT ![frame.stream] = cut.rest]]

\* podman's frames, the lines of the two streams among them, and what is left
\* unfinished after some frames.
Frame == [stream : STRING, text : Text]
Line == [stream : Streams, text : Text]

Unfinished(frames) ==
    Loop([p \in [Streams -> Text] |-> [f \in Frame |-> Demux(p, f).partial]], [s \in Streams |-> <<>>], frames)

\* The reader's text, however it was cut into events.
Joined(texts) == Gathered(Symbols, [t \in Text |-> t], texts)

Said(events) == Without(Joined(events), {"nl", "cr"})

\* What the reader has of one stream.
OfStream(events, stream) == Gathered(Line, [e \in Line |-> IF e.stream = stream THEN <<e>> ELSE <<>>], events)

\* The closed form of a log: the output up to the cap, and the notice if it got there.
Capped(output) == IF Len(output) < Cap THEN output ELSE SubSeq(output, 1, Cap) \o (IF Cap > 0 THEN Notice ELSE <<>>)

\* What one stream of a sequence of frames says.
Payload(frames, stream) == Gathered(Symbols, [f \in Frame |-> IF f.stream = stream THEN f.text ELSE <<>>], frames)
=============================================================================
