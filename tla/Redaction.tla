----------------------------- MODULE Redaction ------------------------------
(***************************************************************************)
(* Literal redaction, of a whole text and of a text that arrives in        *)
(* chunks: mcp_router/core/redaction.py.  A text is a sequence of symbols; *)
(* the secrets are a sequence of texts in the order of replacement, from   *)
(* the longest to the shortest.  No secret overlaps the text "[REDACTED]", *)
(* which is one symbol here.                                               *)
(***************************************************************************)
EXTENDS Naturals, Sequences, FiniteSetsExt

CONSTANTS
    Redacted,   \* "[REDACTED]"
    Symbols     \* the alphabet of a text

ASSUME SymbolsAssumption == Redacted \notin Symbols

OccursAt(text, literal, i) ==
    /\ i + Len(literal) - 1 <= Len(text)
    /\ SubSeq(text, i, i + Len(literal) - 1) = literal

(* Mutant: only the first occurrence is replaced. *)
ReplaceFirst(text, literal) ==
    LET from[i \in 1..(Len(text) + 1)] ==
            IF i > Len(text) THEN <<>>
            ELSE IF OccursAt(text, literal, i)
            THEN <<Redacted>> \o SubSeq(text, i + Len(literal), Len(text))
            ELSE <<text[i]>> \o from[i + 1]
    IN from[1]

(* str.replace: the occurrences from left to right, without overlaps *)
Replace(text, literal) ==
    LET from[i \in 1..(Len(text) + 1)] ==
            IF i > Len(text) THEN <<>>
            ELSE IF OccursAt(text, literal, i)
            THEN <<Redacted>> \o from[i + Len(literal)]
            ELSE <<text[i]>> \o from[i + 1]
    IN from[1]

(* SecretRedactor.redact_known_secrets *)
Redact(text, secrets) ==
    LET after[n \in 0..Len(secrets)] ==
            IF n = 0 THEN text ELSE Replace(after[n - 1], secrets[n])
    IN after[Len(secrets)]

(* A literal that begins before a cut after the c-th symbol and ends after *)
(* it, by the number of symbols before it.                                 *)
Straddling(text, secrets, c) ==
    {i \in 0..(c - 1) : \E j \in DOMAIN secrets :
        OccursAt(text, secrets[j], i + 1) /\ c < i + Len(secrets[j])}

(* StreamingSecretRedactor: a literal may end this far beyond a chunk. *)
Overlap(secrets) ==
    IF secrets = <<>> THEN 0 ELSE Max({Len(secrets[j]) : j \in DOMAIN secrets}) - 1

(* Mutant: the cut is moved once, which may expose another literal. *)
CutOnce(text, secrets) ==
    LET cut == IF Len(text) > Overlap(secrets) THEN Len(text) - Overlap(secrets) ELSE 0
    IN Min(Straddling(text, secrets, cut) \cup {cut})

(* The number of symbols of text that can be sent: the cut moves to the    *)
(* first literal that straddles it until none does.                        *)
Cut(text, secrets) ==
    LET settled[c \in 0..Len(text)] ==
            IF Straddling(text, secrets, c) = {} THEN c
            ELSE settled[Min(Straddling(text, secrets, c))]
    IN IF Len(text) > Overlap(secrets) THEN settled[Len(text) - Overlap(secrets)] ELSE 0

Sendable(text, secrets) == SubSeq(text, 1, Cut(text, secrets))
Kept(text, secrets)     == SubSeq(text, Cut(text, secrets) + 1, Len(text))
=============================================================================
