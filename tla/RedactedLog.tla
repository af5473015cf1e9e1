---------------------------- MODULE RedactedLog ----------------------------
(***************************************************************************)
(* RedactedLog: what a workflow prints arrives in chunks, and the log must *)
(* show no secret whichever way a chunk falls.  A text is a sequence of    *)
(* characters; the marker that stands for a secret is one more character,  *)
(* and the bound on the log counts characters.                             *)
(***************************************************************************)
EXTENDS Integers, Sequences, FiniteSets, FiniteSetsExt, SequencesExt

CONSTANTS
    Streams,
    Characters,
    Marker,     \* [REDACTED]
    MaxLog      \* max_log_bytes: what a log may show at most

ASSUME LogAssumption == Marker \notin Characters /\ MaxLog \in Nat

VARIABLES
    secrets,    \* the known secrets, longest first
    pending,    \* of each stream, what may be the beginning of a secret
    shown,      \* of each stream, what the log shows
    printed     \* history: of each stream, what the process printed

logVars == <<secrets, pending, shown, printed>>

Occurs(secret, text, i) ==
    i + Len(secret) - 1 <= Len(text) /\ SubSeq(text, i, i + Len(secret) - 1) = secret

Holds(text, secret) == \E i \in DOMAIN text : Occurs(secret, text, i)

(* No secret begins within another and ends after it.                       *)
Separate(text) ==
    \A i, j \in DOMAIN text : \A s, t \in Range(secrets) :
        Occurs(s, text, i) /\ Occurs(t, text, j) /\ i < j /\ j < i + Len(s)
            => j + Len(t) <= i + Len(s)

\* secrets sorted by length, the longest first, those of one length in any order
Sorted(S) == {order \in SetToSeqs(S) : \A i, j \in DOMAIN order :
                  i < j => Len(order[i]) >= Len(order[j])}

Positions(text) == [i \in DOMAIN text |-> i]

(* The bytes kept back are one fewer than the longest secret has. *)
Keep == IF secrets = <<>> THEN 0 ELSE Len(secrets[1]) - 1

(* The cut moves back to the start of every occurrence that it splits, the  *)
(* secrets one after the other and the occurrences of each from the left.   *)
CutBefore(buffer, cut, secret) ==
    FoldLeft(LAMBDA c, i : IF /\ Occurs(secret, buffer, i)
                              /\ i - 1 < c /\ c < i - 1 + Len(secret)
                           THEN i - 1 ELSE c,
             cut, Positions(buffer))

\* Mutation: everything is kept back until the stream ends.
CutAtEnd(buffer, final) == IF final THEN Len(buffer) ELSE 0
\* Mutation: the cut falls where it falls, though a secret goes over it.
CutAnywhere(buffer, final) == IF final THEN Len(buffer) ELSE Max({0, Len(buffer) - Keep})
Cut(buffer, final) ==
    FoldLeft(LAMBDA c, s : CutBefore(buffer, c, s),
             IF final THEN Len(buffer) ELSE Max({0, Len(buffer) - Keep}), secrets)

(* bytes.replace: every occurrence from the left, none overlapping the last. *)
Replace(text, secret) ==
    FoldLeft(LAMBDA done, i :
                 CASE done.skip > 0 -> [done EXCEPT !.skip = @ - 1]
                   [] done.skip = 0 /\ Occurs(secret, text, i) ->
                         [out |-> Append(done.out, Marker), skip |-> Len(secret) - 1]
                   [] OTHER -> [done EXCEPT !.out = Append(@, text[i])],
             [out |-> <<>>, skip |-> 0], Positions(text)).out

Redacted(text) == FoldLeft(Replace, text, secrets)

Ready(stream, data, final) ==
    LET buffer == pending[stream] \o data IN SubSeq(buffer, 1, Cut(buffer, final))

Size == MapThenSumSet(LAMBDA s : Len(shown[s]), Streams)

(* A log that would grow past its bound takes nothing of the chunk (OUTPUT_LIMIT). *)
Overflows(stream, data, final) ==
    LET ready == Redacted(Ready(stream, data, final)) IN
    ready # <<>> /\ Size + Len(ready) > MaxLog

Write(stream, data, final) ==
    LET buffer == pending[stream] \o data
        ready == Ready(stream, data, final)
    IN  /\ pending' = [pending EXCEPT ![stream] = SubSeq(buffer, Len(ready) + 1, Len(buffer))]
        /\ shown' = IF Overflows(stream, data, final) THEN shown
                    ELSE [shown EXCEPT ![stream] = @ \o Redacted(ready)]
        /\ printed' = [printed EXCEPT ![stream] = @ \o data]
        /\ UNCHANGED secrets

LogInit(S) ==
    /\ secrets \in Sorted(S)
    /\ pending = [s \in Streams |-> <<>>]
    /\ shown = [s \in Streams |-> <<>>]
    /\ printed = [s \in Streams |-> <<>>]

(* close: an unfinished tail is dropped, it may be the beginning of a secret. *)
Close == pending' = [s \in Streams |-> <<>>] /\ UNCHANGED <<secrets, shown, printed>>
=============================================================================
