--------------------------- MODULE ScorecardLedger ---------------------------
(***************************************************************************)
(* The placements of one scorecard channel and the aggregates its          *)
(* dashboard reads (the scorecard routes of server/routes.ts).  Every      *)
(* route that writes placements reconciles the aggregate of each recruiter *)
(* and month it touched, in the same transaction; an aggregate can also be *)
(* written by hand, as those from before placements were kept all were.    *)
(***************************************************************************)
EXTENDS Integers, Sequences, FiniteSets, FiniteSetsExt

CONSTANTS
    Recruiters,
    NoManager,    \* a placement without a second credit
    Months,
    Fees,
    MaxCredits,   \* rows of channel_scorecard_placements
    MaxBatch,     \* placements of one request
    MaxByHand     \* aggregates written by hand, the first ones included

ASSUME LedgerAssumption ==
    /\ NoManager \notin Recruiters /\ Fees \subseteq Nat
    /\ IsFiniteSet(Recruiters) /\ IsFiniteSet(Months)
    /\ MaxCredits \in Nat /\ MaxBatch \in Nat /\ MaxByHand \in Nat

VARIABLES
    roster,    \* the recruiters of the config; none before there is one
    credits,   \* channel_scorecard_placements, by id
    actuals,   \* channel_scorecard_actuals, by recruiter and month
    byHand,    \* aggregates no reconciliation has written since a hand did
    hands

ledgerVars == <<roster, credits, actuals, byHand, hands>>

Ids     == 1..MaxCredits
Cells   == Recruiters \X Months
Solo    == 0
\* The group of a split is the id of its recruiter's row.
Credit  == [who : Recruiters, month : Months, fee : Nat, group : Ids \union {Solo}]
Actual  == [count : Nat, fee : Nat, noted : BOOLEAN]
Inputs  == {p \in [who : Recruiters, manager : Recruiters \union {NoManager},
                   month : Months, fee : Fees] : p.who # p.manager}

LedgerInit ==
    /\ roster = {} /\ credits = <<>>
    /\ \E legacy \in SUBSET Cells, noted \in BOOLEAN, fee \in Fees :
          /\ Cardinality(legacy) <= MaxByHand
          /\ actuals = [c \in legacy |-> [count |-> 1, fee |-> fee, noted |-> noted]]
    /\ byHand = DOMAIN actuals /\ hands = Cardinality(byHand)

-----------------------------------------------------------------------------
(* Reconciliation *)

In(table, c) == {i \in DOMAIN table : table[i].who = c[1] /\ table[i].month = c[2]}

\* What fees come to, one for each number a row can have.
Added(fees) == LET S[n \in 0..MaxCredits] == IF n = 0 THEN 0 ELSE S[n - 1] + fees[n]
               IN  S[MaxCredits]

SumOf(table, c, noted) ==
    [count |-> Cardinality(In(table, c)),
     fee   |-> Added([i \in Ids |-> IF i \in In(table, c) THEN table[i].fee ELSE 0]),
     noted |-> noted]

Noted(c) == c \in DOMAIN actuals /\ actuals[c].noted

\* An aggregate keeps its note.  Without placements it goes, unless it has one.
Reconcile(table, touched) ==
    LET backed == {c \in touched : In(table, c) # {}}
        kept   == {c \in DOMAIN actuals : c \notin touched \/ Noted(c)}
    IN [c \in backed \union kept |->
           IF c \in backed THEN SumOf(table, c, Noted(c)) ELSE actuals[c]]

\* The transaction of every route that writes placements.
Write(table, touched) ==
    /\ credits' = table
    /\ actuals' = Reconcile(table, touched)
    /\ byHand' = byHand \ touched
    /\ UNCHANGED <<roster, hands>>

-----------------------------------------------------------------------------
(* The routes *)

\* PATCH .../scorecard/config: the recruiters are replaced, whatever they have placed.
SetRoster(recruiters) ==
    /\ recruiters # {}
    /\ roster' = recruiters
    /\ UNCHANGED <<credits, actuals, byHand, hands>>

\* The rows a placement writes, the first of them with the id given; on odd cents the
\* recruiter has the extra one.
Rows(p, id) ==
    LET row(who, fee, group) ==
            [who |-> who, month |-> p.month, fee |-> fee, group |-> group]
    IN IF p.manager = NoManager
       THEN [i \in {id} |-> row(p.who, p.fee, Solo)]
       ELSE [i \in {id, id + 1} |-> IF i = id THEN row(p.who, p.fee - p.fee \div 2, id)
                                   ELSE row(p.manager, p.fee \div 2, id)]

\* The id after all of a table.
NextId(table) == Max(DOMAIN table \union {0}) + 1

Inserted(table, rows) ==
    [i \in DOMAIN table \union DOMAIN rows |-> IF i \in DOMAIN table THEN table[i] ELSE rows[i]]

\* The tables on the way, and the last of them.
Tables(batch) ==
    LET after[n \in 0..Len(batch)] ==
            IF n = 0 THEN credits
            ELSE Inserted(after[n - 1], Rows(batch[n], NextId(after[n - 1])))
    IN after

Logged(batch) == Tables(batch)[Len(batch)]

Known(p) == p.who \in roster /\ (p.manager = NoManager \/ p.manager \in roster)

\* POST .../scorecard/placements
LogPlacements(batch) ==
    /\ \A n \in DOMAIN batch : Known(batch[n])
    /\ Cardinality(DOMAIN credits) + Len(batch) <= MaxCredits
    /\ LET table == Logged(batch)
           fresh == DOMAIN table \ DOMAIN credits
       IN /\ DOMAIN table \subseteq Ids
          /\ Write(table, {<<table[i].who, table[i].month>> : i \in fresh})

Siblings(id) == {i \in DOMAIN credits : i = id \/ (credits[id].group # Solo
                                                   /\ credits[i].group = credits[id].group)}

\* DELETE .../scorecard/placements/:placementId, and with it the other half of a split.
DeletePlacement(id) ==
    Write([i \in DOMAIN credits \ Siblings(id) |-> credits[i]],
          {<<credits[i].who, credits[i].month>> : i \in Siblings(id)})

\* Mutant of EditTouches: the month the placement has left is not reconciled.
NewMonth(id, month)    == {<<credits[id].who, month>>}
EditTouches(id, month) == {<<credits[id].who, credits[id].month>>, <<credits[id].who, month>>}

\* PATCH .../scorecard/placements/:placementId; a split is refused.
EditPlacement(id, month, fee) ==
    /\ credits[id].group = Solo
    /\ Write([credits EXCEPT ![id].month = month, ![id].fee = fee], EditTouches(id, month))

\* POST .../scorecard/actuals, with or without a note, and whatever is placed there.
WriteActual(c, actual) ==
    /\ hands < MaxByHand /\ hands' = hands + 1
    /\ c[1] \in roster
    /\ actuals' = [d \in DOMAIN actuals \union {c} |-> IF d = c THEN actual ELSE actuals[d]]
    /\ byHand' = byHand \union {c}
    /\ UNCHANGED <<roster, credits>>

\* DELETE .../scorecard/actuals/legacy, refused where placements are.
DeleteLegacy(c) ==
    /\ c \in DOMAIN actuals /\ In(credits, c) = {}
    /\ actuals' = [d \in DOMAIN actuals \ {c} |-> actuals[d]]
    /\ byHand' = byHand \ {c}
    /\ UNCHANGED <<roster, credits, hands>>

LedgerNext ==
    \/ \E recruiters \in SUBSET Recruiters : SetRoster(recruiters)
    \/ \E n \in 1..MaxBatch : \E batch \in [1..n -> {p \in Inputs : Known(p)}] :
          LogPlacements(batch)
    \/ \E id \in DOMAIN credits :
          \/ DeletePlacement(id)
          \/ \E month \in Months, fee \in Fees : EditPlacement(id, month, fee)
    \/ \E c \in Cells :
          \/ DeleteLegacy(c)
          \/ \E fee \in Fees, noted \in BOOLEAN :
                WriteActual(c, [count |-> 1, fee |-> fee, noted |-> noted])

LedgerSpec == LedgerInit /\ [][LedgerNext]_ledgerVars

-----------------------------------------------------------------------------
(* Properties *)

\* The type of the state: no aggregate is written by hand that is not there.
LedgerTypeOK ==
    /\ roster \subseteq Recruiters
    /\ DOMAIN credits \subseteq Ids /\ \A i \in DOMAIN credits : credits[i] \in Credit
    /\ DOMAIN actuals \subseteq Cells /\ \A c \in DOMAIN actuals : actuals[c] \in Actual
    /\ byHand \subseteq DOMAIN actuals
    /\ hands \in 0..MaxByHand

\* What the dashboard shows of a recruiter's month is what its placements add up to,
\* and nothing where there are none, unless a hand wrote it since, or it carries a
\* note and the last placement is gone.
DriftHasACause ==
    \A c \in Cells \ byHand :
       IF In(credits, c) # {}
       THEN c \in DOMAIN actuals /\ actuals[c] = SumOf(credits, c, actuals[c].noted)
       ELSE c \in DOMAIN actuals => actuals[c].noted

\* The two credits of a split live and die together, in one month, for two people, and
\* share the fee to the cent.
SplitsStayPaired ==
    \A i \in DOMAIN credits : credits[i].group # Solo =>
       LET g == credits[i].group
           pair == {j \in DOMAIN credits : credits[j].group = g}
       IN \E j \in pair \ {g} :
             /\ pair = {g, j}
             /\ credits[j].who # credits[g].who /\ credits[j].month = credits[g].month
             /\ credits[g].fee - credits[j].fee \in {0, 1}

\* Both: the aggregates and the splits agree with the placements they are made of.
LedgerAddsUp == DriftHasACause /\ SplitsStayPaired

=============================================================================
