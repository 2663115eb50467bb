----------------------------- MODULE MCSseStream -----------------------------
(***************************************************************************)
(* Streams for TLC: up to MaxLines lines, the last one possibly without    *)
(* its newline.                                                            *)
(***************************************************************************)
EXTENDS SseStream, SequencesExt

CONSTANT MaxLines

TokensOf == [u \in {"usage 0", "usage 2"} |-> IF u = "usage 0" THEN 0 ELSE 2]

Lines ==
  {<<"data:", p>> : p \in {"content", "content, null usage", "usage 0", "usage 2", "[DONE]"}}
    \cup {<<"data:">>, <<": comment">>, << >>}

Terminated(lines) == FlattenSeq([i \in DOMAIN lines |-> Append(lines[i], "\n")])

StreamsOf ==
  LET whole == {Terminated(lines) : lines \in UNION {[1 .. n -> Lines] : n \in 1 .. MaxLines}}
  IN  whole \cup {Front(s) : s \in whole}

=============================================================================
