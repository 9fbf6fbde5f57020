---------------------------- MODULE EventFraming ----------------------------
(***************************************************************************)
(* An event of an event stream, and the replacement of its data:           *)
(* mcp_router/core/sse.py.  A line is a pair of its field, "data" or       *)
(* another one ("other": id, event, retry, a comment), and its value.      *)
(***************************************************************************)
EXTENDS Naturals, Sequences, FiniteSets, SequencesExt

(* The lines of a field, in order. *)
LinesOf(lines, field) ==
    FlattenSeq([i \in DOMAIN lines |-> IF lines[i][1] = field THEN <<lines[i]>> ELSE <<>>])

(* The data a client reads from an event, and what else it reads. *)
DataOf(lines)  == LinesOf(lines, "data")
OtherOf(lines) == LinesOf(lines, "other")

DataIndexes(lines) == {i \in DOMAIN lines : lines[i][1] = "data"}

(* transform_sse_event, when the transformation changed the data: line by  *)
(* line if their number is the same, at the first data line otherwise.     *)
ReplaceData(lines, data) ==
    LET at == DataIndexes(lines) IN
    IF Cardinality(at) = Len(data)
    THEN [i \in DOMAIN lines |->
            IF i \in at THEN data[Cardinality({j \in at : j <= i})] ELSE lines[i]]
    ELSE FlattenSeq([i \in DOMAIN lines |->
            IF i = Min(at) THEN data ELSE IF i \in at THEN <<>> ELSE <<lines[i]>>])

TransformEvent(lines, data) ==
    IF DataOf(lines) = <<>> \/ DataOf(lines) = data THEN lines ELSE ReplaceData(lines, data)
=============================================================================
