-------------------------- MODULE SysmondHistory --------------------------
(***************************************************************************)
(* sysmond's ring of samples: bare values, positional against one list of   *)
(* sensors that grows as drivers bind.  The dashboard is sent the list and  *)
(* the values, so a value means what its position in the list says.         *)
(***************************************************************************)
EXTENDS Integers, Sequences, SequencesExt

CONSTANTS
    Sensors,    \* the channels the box may show, and one slug two of them share
    Slug,       \* Slug[s]: the label of s, made a name
    Cap,        \* samples the ring holds
    Every,       \* history publishes every Every-th
    MaxSamples  \* bound: samples taken

Missing == "missing"

VARIABLES
    bound,      \* sensors whose driver is bound
    series,     \* Store.series: a slug and, for the property, whose it was
    ring,       \* samples: at, and v by position
    n,          \* samples taken
    history     \* health/history as last published: series and samples

hvars == <<bound, series, ring, n, history>>

TypeOK ==
    /\ bound \subseteq Sensors /\ n \in 0..MaxSamples
    /\ Len(ring) <= Cap /\ \A i \in DOMAIN ring : Len(ring[i].v) <= Len(series)

(* Names that collide are qualified by their chip.                         *)
NameOf(s) == IF \E o \in bound \ {s} : Slug[o] = Slug[s] THEN <<Slug[s], s>> ELSE <<Slug[s]>>
readings == {<<NameOf(s), s>> : s \in bound}

Bind(s) ==
    /\ bound' = IF s \in bound THEN bound \ {s} ELSE bound \cup {s}
    /\ UNCHANGED <<series, ring, n, history>>

(* A sensor that appears later extends the list; nothing is renumbered.    *)
(* Mutant: the list is the sensors of the moment.                           *)
MutantExtended(names) == SetToSeq(names)
Extended(names) == series \o SetToSeq(names \ ToSet(series))

Values(list) ==
    [i \in DOMAIN list |->
        IF \E r \in readings : r[1] = list[i]
        THEN (CHOOSE r \in readings : r[1] = list[i])[2] ELSE Missing]

(* Every Every-th of all samples (since 0), the newest always kept.          *)
history_json(list, samples) ==
    LET kept == (Len(samples) + Every - 1) \div Every
    IN [series |-> list,
        samples |-> [j \in 1..kept |-> samples[Len(samples) - (kept - j) * Every]]]

push ==
    /\ n < MaxSamples /\ n' = n + 1
    /\ series' = Extended({NameOf(s) : s \in bound})
    /\ LET sample == [at |-> n + 1, v |-> Values(series'), is |-> series']
       IN ring' = Append(IF Len(ring) = Cap THEN Tail(ring) ELSE ring, sample)
    /\ history' = IF n % Every = 0 THEN history_json(series', ring') ELSE history
    /\ UNCHANGED bound

HistoryInit ==
    /\ bound \in SUBSET Sensors /\ series = <<>> /\ ring = <<>> /\ n = 0
    /\ history = history_json(<<>>, <<>>)

HistoryNext == push \/ \E s \in Sensors : Bind(s)

HistorySpec == HistoryInit /\ [][HistoryNext]_hvars

-----------------------------------------------------------------------------
(* Every sample ever published or held still reads as it did when it was    *)
(* taken: what the list calls a position is what it called it then.         *)
SamplesKeepMeaning ==
    \A doc \in {history, [series |-> series, samples |-> ring]} :
        \A i \in DOMAIN doc.samples : IsPrefix(doc.samples[i].is, doc.series)
=============================================================================
