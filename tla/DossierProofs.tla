----------------------------- MODULE DossierProofs -----------------------------
(***************************************************************************)
(* Proofs about Dossier, for every roster of providers, every answer and   *)
(* every crowd they may come with, every lead, every carrier match score,  *)
(* every setting of the weights and every number of matches shown.         *)
(*                                                                         *)
(* The loops over arrays are folds and go through FoldTheorems: what its   *)
(* body preserves (FoldType), and what one element brings about and the    *)
(* later ones preserve (FoldReaches), holds of what a loop returns.  Sorts *)
(* and filters go through Arrangement: the elements asked for, each of     *)
(* them once, a higher key first.                                          *)
(***************************************************************************)
EXTENDS Dossier, FiniteSetTheorems, FunctionTheorems, SequenceTheorems, TLAPS

\* The loops: over numbers, phones, answers and matches.
AddNews == INSTANCE FoldTheorems WITH Op <- AddNew
JoinedPhones == INSTANCE FoldTheorems WITH Op <- JoinPhone
JoinedAnswers == INSTANCE FoldTheorems WITH Op <- JoinPhones
SummedConfidences == INSTANCE FoldTheorems WITH Op <- AddConfidence
Collecting == INSTANCE FoldTheorems WITH Op <- CollectMatch

\* A phone that is called primary only if it is the lead's own; and a list of such phones
\* of which one is primary.
OwnPhone == {p \in EnrichedPhone : p.isPrimary => p.number = Own}
OwnLed == {phones \in Seq(OwnPhone) : \E i \in DOMAIN phones : phones[i].isPrimary}

\* What an adapter makes of an answer; BatchData alone may call another number primary.
Enrichments ==
  {e \in [code: Adapters,
          data: [phones: Seq(EnrichedPhone), has: SUBSET Parts, ownership: Deeds,
                 providerConfidence: 0..100]] :
     e.code # "BATCHDATA" => e.data.phones \in OwnLed}

\* What every adapter but BatchData makes of an answer.
OwnEnrichments == {e \in Enrichments : e.data.phones \in OwnLed}

\* A merged person; without BatchData among its sources, the lead's own number leads.
IsPerson(p) ==
  /\ p \in [phones: Seq(EnrichedPhone), has: SUBSET Parts, ownership: Deeds, accuracy: 0..100,
            sources: Seq(Adapters)]
  /\ "BATCHDATA" \notin ToSet(p.sources) => p.phones = <<>> \/ p.phones \in OwnLed

\* A match as a provider finds it; and as a search lists it, 99 at most under a number.
FoundMatch ==
  [source: Adapters, name: BOOLEAN, verifiedBy: Nat \ {0}, confidence: Nat,
   phones: Seq([number: Numbers, isPrimary: BOOLEAN])]
ListedMatch == {m \in FoundMatch : PrimaryOf(m) # "none" => m.confidence <= 99}

-----------------------------------------------------------------------------
(* The inductive invariant                                                 *)

\* What the sections before the score leave for it.
InputsOK ==
  /\ weights \in [Keys -> Nat]
  /\ answered \in Seq(Enrichments)
  /\ active \subseteq Adapters /\ todo \subseteq active
  /\ IsPerson(person)
  /\ callable \in BOOLEAN

\* A score and its items while they are added up.
Balanced(tally) ==
  /\ tally = [score |-> tally.score, items |-> tally.items]
  /\ tally.score \in Int /\ tally.items \in [ItemKeys -> Int]
  /\ tally.score = ItemSum(tally.items)

\* The item of a key that is still to come is nil.
Open(tally, key) == tally.items[key] = 0

\* The score of the dossier is accounted for.
ScoredOK ==
  /\ InputsOK /\ ScoreIsItemized
  /\ dossier.score \in 0..100 /\ dossier.conversion \in 0..95

\* The dossier is of a person as the merge makes them.
DossierOK == IsPerson(dossier.person) /\ dossier.status \in {"NONE", "PARTIAL", "COMPLETE"}

\* A search collects matches, and shows the merge of them when it is through.
SearchOK ==
  /\ query \in Queries
  /\ collected \in Seq(FoundMatch)
  /\ IF pc = "shown" THEN shown = mergeMatches(collected) ELSE shown = <<>>

\* The inductive invariant behind TypeOK and the safety invariants.
DossierInv ==
  /\ pc \in {"idle", "asking", "verifying", "complying", "scoring", "searching", "shown"}
  /\ lead \in Lead
  /\ ScoredOK /\ DossierOK /\ SearchOK

-----------------------------------------------------------------------------
(* Arrays                                                                  *)

\* A list is a function on the first numbers.
LEMMA ListDomain ==
  ASSUME NEW S, NEW s \in Seq(S)
  PROVE  /\ Len(s) \in Nat /\ DOMAIN s = 1..Len(s) /\ s \in [1..Len(s) -> S]
         /\ \A i \in DOMAIN s : i \in Nat /\ s[i] \in S
BY LenProperties

\* A function on the first numbers is a list.
LEMMA ListOf == ASSUME NEW S, NEW n \in Nat, NEW f \in [1..n -> S] PROVE f \in Seq(S)
OBVIOUS

\* So is one element.
LEMMA OneElement ==
  ASSUME NEW S, NEW x \in S
  PROVE  <<x>> \in Seq(S) /\ 1 \in DOMAIN <<x>> /\ <<x>>[1] = x
OBVIOUS

\* A list of elements of a set is one of every larger set.
LEMMA SeqGrows == \A S, T : S \subseteq T => Seq(S) \subseteq Seq(T)
<1> SUFFICES ASSUME NEW S, NEW T, S \subseteq T, NEW s \in Seq(S) PROVE s \in Seq(T)
  OBVIOUS
<1>1. Len(s) \in Nat /\ s \in [1..Len(s) -> T]
  BY ListDomain
<1> QED BY <1>1, ListOf

\* How many of the positions I come before i.
Rank(I, key, i) == Cardinality({j \in I : Before(key, j, i)})

\* Of two positions one comes before the other, and the later one has the higher rank.
LEMMA RankGrows ==
  ASSUME NEW I \in SUBSET Nat, IsFiniteSet(I), NEW key \in [I -> Nat],
         NEW i \in I, NEW j \in I
  PROVE  /\ i # j => Before(key, i, j) \/ Before(key, j, i)
         /\ Before(key, i, j) => Rank(I, key, i) < Rank(I, key, j)
         /\ Rank(I, key, i) \in 0..(Cardinality(I) - 1)
<1>1. \A x \in I : x \in Nat /\ key[x] \in Nat
  OBVIOUS
<1> DEFINE Below(x) == {y \in I : Before(key, y, x)}
<1>2. \A x \in I : /\ IsFiniteSet(Below(x)) /\ Cardinality(Below(x)) \in Nat
                   /\ x \notin Below(x) /\ Below(x) \cup {x} \in SUBSET I
                   /\ IsFiniteSet(Below(x) \cup {x})
                   /\ Cardinality(Below(x) \cup {x}) = Cardinality(Below(x)) + 1
  <2> SUFFICES ASSUME NEW x \in I
               PROVE  /\ IsFiniteSet(Below(x)) /\ Cardinality(Below(x)) \in Nat
                      /\ x \notin Below(x) /\ Below(x) \cup {x} \in SUBSET I
                      /\ IsFiniteSet(Below(x) \cup {x})
                      /\ Cardinality(Below(x) \cup {x}) = Cardinality(Below(x)) + 1
    OBVIOUS
  <2>1. Below(x) \in SUBSET I /\ x \notin Below(x) /\ Below(x) \cup {x} \in SUBSET I
    BY <1>1 DEF Before
  <2>2. IsFiniteSet(Below(x)) /\ Cardinality(Below(x)) \in Nat
    BY <2>1, FS_Subset, FS_CardinalityType
  <2> HIDE DEF Below
  <2> QED BY <2>1, <2>2, FS_AddElement
<1>3. Before(key, i, j) => Below(i) \cup {i} \in SUBSET Below(j)
  <2>1. \A y \in I : Before(key, y, i) /\ Before(key, i, j) => Before(key, y, j)
    BY <1>1 DEF Before
  <2> QED BY <2>1
<1>4. Rank(I, key, i) = Cardinality(Below(i)) /\ Rank(I, key, j) = Cardinality(Below(j))
  BY DEF Rank
<1>5. i # j => Before(key, i, j) \/ Before(key, j, i)
  BY <1>1 DEF Before
<1> HIDE DEF Below
<1>6. Before(key, i, j) => Rank(I, key, i) < Rank(I, key, j)
  <2> SUFFICES ASSUME Before(key, i, j) PROVE Rank(I, key, i) < Rank(I, key, j)
    OBVIOUS
  <2>1. Cardinality(Below(i) \cup {i}) <= Cardinality(Below(j))
    BY <1>2, <1>3, FS_Subset
  <2>2. /\ Cardinality(Below(i)) \in Nat /\ Cardinality(Below(j)) \in Nat
        /\ Cardinality(Below(i) \cup {i}) = Cardinality(Below(i)) + 1
    BY <1>2
  <2>3. Cardinality(Below(i)) < Cardinality(Below(j))
    BY <2>1, <2>2
  <2> QED BY <1>4, <2>3
<1>7. Rank(I, key, i) \in 0..(Cardinality(I) - 1)
  <2>1. Cardinality(Below(i) \cup {i}) <= Cardinality(I) /\ Cardinality(I) \in Nat
    BY <1>2, FS_Subset, FS_CardinalityType
  <2>2. /\ Cardinality(Below(i)) \in Nat
        /\ Cardinality(Below(i) \cup {i}) = Cardinality(Below(i)) + 1
    BY <1>2
  <2>3. Cardinality(Below(i)) \in 0..(Cardinality(I) - 1)
    BY <2>1, <2>2
  <2> QED BY <1>4, <2>3
<1> QED BY <1>5, <1>6, <1>7

\* Arranging takes each of the positions once, a higher key first.
LEMMA Arrangement ==
  ASSUME NEW I \in SUBSET Nat, IsFiniteSet(I), NEW key \in [I -> Nat]
  PROVE  \E p \in [1..Cardinality(I) -> I] :
           /\ \A s : Arranged(s, I, key) = [k \in 1..Cardinality(I) |-> s[p[k]]]
           /\ \A i \in I : \E k \in 1..Cardinality(I) : p[k] = i
           /\ \A j, k \in 1..Cardinality(I) : j < k => key[p[j]] >= key[p[k]]
<1> DEFINE n == Cardinality(I)
           rank == [i \in I |-> Rank(I, key, i)]
<1>0. n \in Nat
  BY FS_CardinalityType
<1>1. rank \in [I -> 0..(n - 1)]
  BY RankGrows
<1>2. \A i, j \in I : i # j => rank[i] # rank[j]
  <2> SUFFICES ASSUME NEW i \in I, NEW j \in I, i # j PROVE rank[i] # rank[j]
    OBVIOUS
  <2>1. rank[i] \in Int /\ rank[j] \in Int /\ (rank[i] < rank[j] \/ rank[j] < rank[i])
    BY <1>0, <1>1, RankGrows
  <2> QED BY <2>1
<1>3. IsFiniteSet(0..(n - 1)) /\ Cardinality(0..(n - 1)) = n
  BY <1>0, FS_Interval
<1>4. rank \in Surjection(I, 0..(n - 1))
  <2>1. rank \in Injection(I, 0..(n - 1))
    BY <1>1, <1>2 DEF Injection, IsInjective
  <2> HIDE DEF rank
  <2> QED BY <1>3, <2>1, FS_Injection
<1>5. \A m \in 0..(n - 1) : \E i \in I : Rank(I, key, i) = m
  BY <1>4 DEF Surjection
<1> DEFINE p == [k \in 1..n |-> CHOOSE i \in I : Rank(I, key, i) = k - 1]
<1>6. \A k \in 1..n : p[k] \in I /\ Rank(I, key, p[k]) = k - 1
  <2> SUFFICES ASSUME NEW k \in 1..n PROVE p[k] \in I /\ Rank(I, key, p[k]) = k - 1
    OBVIOUS
  <2>1. k - 1 \in 0..(n - 1)
    BY <1>0
  <2> QED BY <1>5, <2>1
<1>7. \A s : Arranged(s, I, key) = [k \in 1..n |-> s[p[k]]]
  BY DEF Arranged, Rank
<1> HIDE DEF p
<1>8. \A i \in I : \E k \in 1..n : p[k] = i
  <2> SUFFICES ASSUME NEW i \in I PROVE \E k \in 1..n : p[k] = i
    OBVIOUS
  <2>1. Rank(I, key, i) \in 0..(n - 1)
    BY RankGrows
  <2>2. PICK k \in 1..n : k - 1 = Rank(I, key, i)
    <3> DEFINE k == Rank(I, key, i) + 1
    <3>1. k \in 1..n /\ k - 1 = Rank(I, key, i)
      BY <1>0, <2>1
    <3> HIDE DEF k
    <3> QED BY <3>1
  <2> QED BY <1>2, <1>6, <2>2
<1>9. \A j, k \in 1..n : j < k => key[p[j]] >= key[p[k]]
  <2> SUFFICES ASSUME NEW j \in 1..n, NEW k \in 1..n, j < k PROVE key[p[j]] >= key[p[k]]
    OBVIOUS
  <2>1. ~Before(key, p[k], p[j])
    <3>1. ~(Rank(I, key, p[k]) < Rank(I, key, p[j]))
      BY <1>0, <1>6
    <3> QED BY <1>6, <3>1, RankGrows
  <2>2. key[p[j]] \in Nat /\ key[p[k]] \in Nat
    BY <1>6
  <2> QED BY <2>1, <2>2 DEF Before
<1>10. p \in [1..n -> I]
  <2>1. p = [k \in 1..n |-> p[k]]
    BY DEF p
  <2> QED BY <1>6, <2>1
<1> QED BY <1>7, <1>8, <1>9, <1>10

\* Filtering takes the positions asked for.
LEMMA AtArrangement ==
  ASSUME NEW I \in SUBSET Nat, IsFiniteSet(I), NEW s
  PROVE  \E p \in [1..Cardinality(I) -> I] :
           At(s, I) = [k \in 1..Cardinality(I) |-> s[p[k]]]
<1>1. PICK key \in [I -> Nat] : At(s, I) = Arranged(s, I, key)
  <2>1. [i \in I |-> 0] \in [I -> Nat]
    OBVIOUS
  <2> QED BY <2>1 DEF At
<1>2. PICK p \in [1..Cardinality(I) -> I] :
        /\ \A t : Arranged(t, I, key) = [k \in 1..Cardinality(I) |-> t[p[k]]]
        /\ \A i \in I : \E k \in 1..Cardinality(I) : p[k] = i
  BY Arrangement
<1> QED BY <1>1, <1>2

\* What is filtered are elements at the positions asked for.
LEMMA AtType ==
  ASSUME NEW I \in SUBSET Nat, IsFiniteSet(I), NEW S, NEW s, \A i \in I : s[i] \in S
  PROVE  At(s, I) \in Seq(S)
<1>1. Cardinality(I) \in Nat
  BY FS_CardinalityType
<1>2. PICK p \in [1..Cardinality(I) -> I] : At(s, I) = [k \in 1..Cardinality(I) |-> s[p[k]]]
  BY AtArrangement
<1>3. At(s, I) \in [1..Cardinality(I) -> S]
  BY <1>2
<1> QED BY <1>1, <1>3

\* The positions of a list are finitely many.
LEMMA Positions ==
  ASSUME NEW S, NEW s \in Seq(S), NEW I \in SUBSET DOMAIN s
  PROVE  I \in SUBSET Nat /\ IsFiniteSet(I) /\ Cardinality(I) \in Nat
<1>1. Len(s) \in Nat /\ I \in SUBSET (1..Len(s))
  BY LenProperties
<1>2. IsFiniteSet(1..Len(s))
  BY <1>1, FS_Interval
<1> QED BY <1>1, <1>2, FS_Subset, FS_CardinalityType

\* Sorting permutes, and puts higher keys first.
LEMMA SortElements ==
  ASSUME NEW S, NEW s \in Seq(S), NEW key \in [DOMAIN s -> Nat]
  PROVE  \E p \in [DOMAIN s -> DOMAIN s] :
           /\ StableSort(s, key) = [k \in DOMAIN s |-> s[p[k]]]
           /\ \A i \in DOMAIN s : \E k \in DOMAIN s : p[k] = i
           /\ \A j, k \in DOMAIN s : j < k => key[p[j]] >= key[p[k]]
<1>1. Len(s) \in Nat /\ DOMAIN s = 1..Len(s)
  BY LenProperties
<1>2. DOMAIN s \in SUBSET Nat /\ IsFiniteSet(DOMAIN s) /\ Cardinality(DOMAIN s) = Len(s)
  <2>1. \A n \in Nat : IsFiniteSet(1..n) /\ Cardinality(1..n) = n
    BY FS_Interval
  <2> QED BY <1>1, <2>1
<1>3. StableSort(s, key) = Arranged(s, DOMAIN s, key)
  BY DEF StableSort
<1>4. PICK p \in [1..Cardinality(DOMAIN s) -> DOMAIN s] :
        /\ \A t : Arranged(t, DOMAIN s, key) = [k \in 1..Cardinality(DOMAIN s) |-> t[p[k]]]
        /\ \A i \in DOMAIN s : \E k \in 1..Cardinality(DOMAIN s) : p[k] = i
        /\ \A j, k \in 1..Cardinality(DOMAIN s) : j < k => key[p[j]] >= key[p[k]]
  BY <1>2, Arrangement
<1> QED BY <1>1, <1>2, <1>3, <1>4

\* So what is sorted has the elements there were.
LEMMA SortKeeps ==
  ASSUME NEW S, NEW s \in Seq(S), NEW key \in [DOMAIN s -> Nat]
  PROVE  /\ StableSort(s, key) \in Seq(S) /\ Len(StableSort(s, key)) = Len(s)
         /\ DOMAIN StableSort(s, key) = DOMAIN s
         /\ \A k \in DOMAIN s : \E i \in DOMAIN s : StableSort(s, key)[k] = s[i]
         /\ \A i \in DOMAIN s : \E k \in DOMAIN s : StableSort(s, key)[k] = s[i]
<1>1. Len(s) \in Nat /\ DOMAIN s = 1..Len(s) /\ \A i \in DOMAIN s : s[i] \in S
  BY LenProperties
<1>2. PICK p \in [DOMAIN s -> DOMAIN s] :
           /\ StableSort(s, key) = [k \in DOMAIN s |-> s[p[k]]]
           /\ \A i \in DOMAIN s : \E k \in DOMAIN s : p[k] = i
  BY SortElements
<1>3. StableSort(s, key) \in [1..Len(s) -> S]
  BY <1>1, <1>2
<1>4. /\ StableSort(s, key) \in Seq(S) /\ Len(StableSort(s, key)) = Len(s)
      /\ DOMAIN StableSort(s, key) = DOMAIN s
  BY <1>1, <1>3
<1>5. \A k \in DOMAIN s : p[k] \in DOMAIN s /\ StableSort(s, key)[k] = s[p[k]]
  BY <1>2
<1>6. \A k \in DOMAIN s : \E i \in DOMAIN s : StableSort(s, key)[k] = s[i]
  BY <1>5
<1>7. \A i \in DOMAIN s : \E k \in DOMAIN s : StableSort(s, key)[k] = s[i]
  BY <1>2, <1>5
<1> QED BY <1>4, <1>6, <1>7, Zenon

-----------------------------------------------------------------------------
(* What the adapters make of an answer                                     *)

\* The fields of an answer.
LEMMA AnswerFields ==
  ASSUME NEW a \in Answer
  PROVE  /\ a.name \in BOOLEAN /\ a.rest \in BOOLEAN /\ a.line \in LineTypes
         /\ a.good \in {"YES", "NO", "UNSAID"} /\ a.deed \in Deeds /\ a.score \in Nat
         /\ a.numbers \in Seq(Numbers \cup {Junk})
BY AnswersAssumption DEF Answer

\* A phone of a known number is one, with the fields it is made of.
LEMMA PhoneType ==
  ASSUME NEW n \in Numbers, NEW line \in LineTypes, NEW isActive \in BOOLEAN, NEW primary \in BOOLEAN
  PROVE  /\ Phone(n, line, isActive, primary) \in EnrichedPhone
         /\ Phone(n, line, isActive, primary).number = n
         /\ Phone(n, line, isActive, primary).isPrimary = primary
         /\ (primary => n = Own) => Phone(n, line, isActive, primary) \in OwnPhone
BY DEF Phone, EnrichedPhone, OwnPhone

\* What parses are numbers.
LEMMA ParsedType == \A a \in Answer : Parsed(a) \in Seq(Numbers)
<1> SUFFICES ASSUME NEW a \in Answer PROVE Parsed(a) \in Seq(Numbers)
  OBVIOUS
<1> DEFINE I == {i \in DOMAIN a.numbers : a.numbers[i] # Junk}
<1>1. a.numbers \in Seq(Numbers \cup {Junk})
  BY AnswerFields
<1>2. I \in SUBSET Nat /\ IsFiniteSet(I)
  BY <1>1, Positions
<1>3. \A i \in I : a.numbers[i] \in Numbers
  BY <1>1
<1>4. Parsed(a) = At(a.numbers, I)
  BY DEF Parsed
<1> HIDE DEF I
<1> QED BY <1>2, <1>3, <1>4, AtType

\* What is listed are phones of which none is primary.
LEMMA ListedType ==
  ASSUME NEW a \in Answer, NEW isActive \in BOOLEAN
  PROVE  Listed(a, isActive) \in Seq(OwnPhone)
<1>1. Parsed(a) \in Seq(Numbers) /\ a.line \in LineTypes
  BY ParsedType, AnswerFields
<1>2. Len(Parsed(a)) \in Nat /\ DOMAIN Parsed(a) = 1..Len(Parsed(a))
      /\ \A i \in DOMAIN Parsed(a) : Parsed(a)[i] \in Numbers
  BY <1>1, LenProperties
<1>3. \A i \in DOMAIN Parsed(a) : Phone(Parsed(a)[i], a.line, isActive, FALSE) \in OwnPhone
  BY <1>1, <1>2, PhoneType
<1>4. Listed(a, isActive) \in [1..Len(Parsed(a)) -> OwnPhone]
  BY <1>2, <1>3 DEF Listed
<1> QED BY <1>2, <1>4

\* Adding a phone adds at most that phone, at the end.
LEMMA AddNewKeeps ==
  ASSUME NEW S, NEW phones \in Seq(S), NEW p \in S
  PROVE  /\ AddNew(phones, p) \in Seq(S)
         /\ \A i \in DOMAIN phones : i \in DOMAIN AddNew(phones, p) /\ AddNew(phones, p)[i] = phones[i]
<1>1. Len(phones) \in Nat /\ DOMAIN phones = 1..Len(phones)
  BY LenProperties
<1>2. AddNew(phones, p) = phones \/ AddNew(phones, p) = Append(phones, p)
  BY DEF AddNew
<1>3. /\ Append(phones, p) \in Seq(S)
      /\ DOMAIN Append(phones, p) = 1..(Len(phones) + 1)
      /\ \A i \in 1..Len(phones) : Append(phones, p)[i] = phones[i]
  BY <1>1, AppendProperties
<1> QED BY <1>1, <1>2, <1>3

\* The fold of AddNew is FoldTheorems'.
LEMMA AddNewFold ==
  ASSUME NEW base, NEW s
  PROVE  AddNews!Folded(base, s) = FoldLeft(AddNew, base, s)
BY Zenon DEF AddNews!Folded, FoldLeft, MapThenFoldSet, Max, AddNews!FoldLeft, AddNews!MapThenFoldSet, AddNews!Max

\* A list of the phones of a set without repetition is one of phones of that set.
LEMMA DistinctType ==
  ASSUME NEW S, NEW s \in Seq(S)
  PROVE  FoldLeft(AddNew, <<>>, s) \in Seq(S)
<1>1. AddNews!Closed(Seq(S), S)
  BY AddNewKeeps DEF AddNews!Closed
<1>2. <<>> \in Seq(S)
  OBVIOUS
<1>3. AddNews!Folded(<<>>, s) \in Seq(S)
  BY <1>1, <1>2, AddNews!FoldType
<1> QED BY <1>3, AddNewFold

\* The lead's own number stays primary, and the only one, whatever is added behind it.
LEMMA OwnFirstType ==
  ASSUME NEW own \in OwnPhone, own.isPrimary, NEW s \in Seq(OwnPhone)
  PROVE  OwnFirst(own, s) \in OwnLed
<1>1. AddNews!Closed(OwnLed, OwnPhone)
  <2> SUFFICES ASSUME NEW phones \in OwnLed, NEW p \in OwnPhone PROVE AddNew(phones, p) \in OwnLed
    BY DEF AddNews!Closed
  <2>1. phones \in Seq(OwnPhone) /\ \E i \in DOMAIN phones : phones[i].isPrimary
    BY DEF OwnLed
  <2>2. /\ AddNew(phones, p) \in Seq(OwnPhone)
        /\ \A i \in DOMAIN phones : i \in DOMAIN AddNew(phones, p) /\ AddNew(phones, p)[i] = phones[i]
    BY <2>1, AddNewKeeps
  <2> QED BY <2>1, <2>2 DEF OwnLed
<1>2. <<own>> \in OwnLed
  <2>1. <<own>> \in Seq(OwnPhone) /\ 1 \in DOMAIN <<own>> /\ <<own>>[1] = own
    OBVIOUS
  <2> QED BY <2>1 DEF OwnLed
<1>3. AddNews!Folded(<<own>>, s) \in OwnLed
  BY <1>1, <1>2, AddNews!FoldType
<1> QED BY <1>3, AddNewFold DEF OwnFirst

\* One phone alone, the lead's own and primary.
LEMMA OwnAlone ==
  ASSUME NEW line \in LineTypes, NEW isActive \in BOOLEAN
  PROVE  <<Phone(Own, line, isActive, TRUE)>> \in OwnLed
<1> PICK own : own = Phone(Own, line, isActive, TRUE)
  OBVIOUS
<1>1. own \in OwnPhone /\ own.isPrimary
  BY PhoneType DEF Numbers
<1>2. <<own>> \in Seq(OwnPhone) /\ 1 \in DOMAIN <<own>> /\ <<own>>[1] = own
  BY <1>1, OneElement
<1> QED BY <1>1, <1>2 DEF OwnLed

\* Trestle, Endato and the engine put the lead's own number first.
LEMMA OwnFirstAdapters ==
  ASSUME NEW a \in Answer
  PROVE  TrestlePhones(a) \in OwnLed /\ EndatoPhones(a) \in OwnLed /\ EnginePhones(a) \in OwnLed
<1>0. /\ a.line \in LineTypes /\ "unknown" \in LineTypes /\ Own \in Numbers
      /\ (a.good = "YES") \in BOOLEAN /\ (a.good # "NO") \in BOOLEAN
  BY AnswerFields DEF LineTypes, Numbers
<1>1. \A line \in LineTypes, isActive \in BOOLEAN :
        Phone(Own, line, isActive, TRUE) \in OwnPhone /\ Phone(Own, line, isActive, TRUE).isPrimary
  BY <1>0, PhoneType
<1>2. <<>> \in Seq(OwnPhone) /\ Listed(a, TRUE) \in Seq(OwnPhone) /\ Listed(a, a.good # "NO") \in Seq(OwnPhone)
  <2>1. <<>> \in Seq(OwnPhone)
    OBVIOUS
  <2> QED BY <1>0, <2>1, ListedType
<1>3. TrestlePhones(a) \in OwnLed
  <2>1. (IF a.name THEN Listed(a, TRUE) ELSE <<>>) \in Seq(OwnPhone)
    BY <1>2
  <2> QED BY <1>0, <1>1, <2>1, OwnFirstType DEF TrestlePhones
<1>4. EndatoPhones(a) \in OwnLed
  BY <1>0, <1>1, <1>2, OwnFirstType DEF EndatoPhones
<1>5. EnginePhones(a) \in OwnLed
  BY <1>0, <1>1, <1>2, OwnFirstType DEF EnginePhones
<1> QED BY <1>3, <1>4, <1>5

\* A list put behind the lead's own primary number.
LEMMA OwnBefore ==
  ASSUME NEW own \in OwnPhone, own.isPrimary, NEW s \in Seq(OwnPhone)
  PROVE  <<own>> \o s \in OwnLed
<1>1. /\ <<own>> \o s \in Seq(OwnPhone) /\ 1 \in DOMAIN (<<own>> \o s)
      /\ (<<own>> \o s)[1] = own
  OBVIOUS
<1> QED BY <1>1 DEF OwnLed

\* SearchBug calls primary the lead's own number alone, which it adds if it is not listed.
LEMMA SearchBugType == \A a \in Answer : SearchBugPhones(a) \in OwnLed
<1> SUFFICES ASSUME NEW a \in Answer PROVE SearchBugPhones(a) \in OwnLed
  OBVIOUS
<1> PICK d : d = FoldLeft(AddNew, <<>>, Listed(a, TRUE))
  OBVIOUS
<1>1. d \in Seq(OwnPhone)
  BY ListedType, DistinctType
<1> PICK out : out = [i \in DOMAIN d |-> [d[i] EXCEPT !.isPrimary = d[i].number = Own]]
  OBVIOUS
<1>2. SearchBugPhones(a) = IF \E i \in DOMAIN out : out[i].isPrimary THEN out
                           ELSE <<Phone(Own, "unknown", TRUE, TRUE)>> \o out
  BY DEF SearchBugPhones
<1>3. out \in Seq(OwnPhone)
  <2>1. Len(d) \in Nat /\ DOMAIN d = 1..Len(d) /\ \A i \in DOMAIN d : d[i] \in OwnPhone
    BY <1>1, LenProperties
  <2>2. \A p \in OwnPhone : [p EXCEPT !.isPrimary = p.number = Own] \in OwnPhone
    BY DEF OwnPhone, EnrichedPhone
  <2>3. out \in [1..Len(d) -> OwnPhone]
    BY <2>1, <2>2
  <2> QED BY <2>1, <2>3, ListOf
<1>4. CASE \E i \in DOMAIN out : out[i].isPrimary
  BY <1>2, <1>3, <1>4 DEF OwnLed
<1>5. CASE ~\E i \in DOMAIN out : out[i].isPrimary
  <2>1. Phone(Own, "unknown", TRUE, TRUE) \in OwnPhone /\ Phone(Own, "unknown", TRUE, TRUE).isPrimary
    BY PhoneType DEF Numbers, LineTypes
  <2> QED BY <1>2, <1>3, <1>5, <2>1, OwnBefore
<1> QED BY <1>4, <1>5

\* BatchData lists phones, whichever of them it calls primary.
LEMMA BatchDataType ==
  ASSUME NEW a \in Answer
  PROVE  BatchDataPhones(a) \in Seq(EnrichedPhone) /\ BatchDataEnrich(a).phones \in Seq(EnrichedPhone)
<1> PICK listed : listed = [i \in DOMAIN a.numbers |-> Phone(a.numbers[i], a.line, a.good # "NO", i = 1)]
  OBVIOUS
<1> PICK I : I = {i \in DOMAIN a.numbers : a.numbers[i] # Junk}
  OBVIOUS
<1>1. a.numbers \in Seq(Numbers \cup {Junk}) /\ a.line \in LineTypes
  BY AnswerFields
<1>2. I \in SUBSET Nat /\ IsFiniteSet(I)
  BY <1>1, Positions
<1>3. \A i \in I : listed[i] \in EnrichedPhone
  <2>1. \A i \in I : a.numbers[i] \in Numbers /\ listed[i] = Phone(a.numbers[i], a.line, a.good # "NO", i = 1)
    BY <1>1
  <2> QED BY <1>1, <2>1, PhoneType
<1>4. BatchDataPhones(a) = At(listed, I)
  BY DEF BatchDataPhones
<1>5. BatchDataPhones(a) \in Seq(EnrichedPhone)
  BY <1>2, <1>3, <1>4, AtType
<1>6. <<Phone(Own, "unknown", TRUE, TRUE)>> \o BatchDataPhones(a) \in Seq(EnrichedPhone)
  <2>1. Phone(Own, "unknown", TRUE, TRUE) \in EnrichedPhone
    BY PhoneType DEF Numbers, LineTypes
  <2>2. <<Phone(Own, "unknown", TRUE, TRUE)>> \in Seq(EnrichedPhone)
    BY <2>1, OneElement
  <2> QED BY <1>5, <2>2, ConcatProperties
<1>7. BatchDataEnrich(a).phones = BatchDataPhones(a)
      \/ BatchDataEnrich(a).phones = <<Phone(Own, "unknown", TRUE, TRUE)>> \o BatchDataPhones(a)
  BY DEF BatchDataEnrich, Person
<1> QED BY <1>5, <1>6, <1>7

EnrichmentData == [phones: Seq(EnrichedPhone), has: SUBSET Parts, ownership: Deeds, providerConfidence: 0..100]

\* A person is enrichment data if each of its fields is of its type.
LEMMA PersonType ==
  ASSUME NEW phones \in Seq(EnrichedPhone), NEW has \in SUBSET Parts, NEW ownership \in Deeds,
         NEW confidence \in 0..100
  PROVE  /\ Person(phones, has, ownership, confidence) \in EnrichmentData
         /\ Person(phones, has, ownership, confidence).phones = phones
BY DEF Person, EnrichmentData

\* A list that the lead's own number leads is a list of phones.
LEMMA OwnLedPhones == OwnLed \subseteq Seq(EnrichedPhone)
<1>1. OwnPhone \subseteq EnrichedPhone /\ OwnLed \subseteq Seq(OwnPhone)
  BY DEF OwnPhone, OwnLed
<1> QED BY <1>1, SeqGrows

\* No adapter makes up a part of a person that there is not.
LEMMA WhenParts == \A c, parts : parts \subseteq Parts => When(c, parts) \in SUBSET Parts
BY DEF When

\* The adapters that describe one number.
LEMMA LineType ==
  ASSUME NEW a, a.line \in LineTypes, NEW has \in SUBSET Parts, NEW confidence \in 0..100
  PROVE  Line(a, has, confidence) \in EnrichmentData /\ Line(a, has, confidence).phones \in OwnLed
<1>1. <<Phone(Own, a.line, a.good # "NO", TRUE)>> \in OwnLed
  BY OwnAlone
<1>2. "unknown" \in Deeds
  BY DEF Deeds
<1> QED BY <1>1, <1>2, OwnLedPhones, PersonType DEF Line

\* The vendors that describe one number report it as the primary one.
LEMMA LineAdapters ==
  ASSUME NEW a \in Answer
  PROVE  /\ TwilioEnrich(a) \in EnrichmentData /\ TwilioEnrich(a).phones \in OwnLed
         /\ MelissaEnrich(a) \in EnrichmentData /\ MelissaEnrich(a).phones \in OwnLed
         /\ IpqsEnrich(a) \in EnrichmentData /\ IpqsEnrich(a).phones \in OwnLed
         /\ NumverifyEnrich(a) \in EnrichmentData /\ NumverifyEnrich(a).phones \in OwnLed
<1>1. a.line \in LineTypes
  BY AnswerFields
<1>2. /\ {} \in SUBSET Parts
      /\ \A c : When(c, {"addresses"}) \in SUBSET Parts
  BY WhenParts DEF Parts
<1>3. TwilioEnrich(a) \in EnrichmentData /\ TwilioEnrich(a).phones \in OwnLed
  BY <1>1, <1>2, LineType DEF TwilioEnrich
<1>4. MelissaEnrich(a) \in EnrichmentData /\ MelissaEnrich(a).phones \in OwnLed
  <2> PICK b : b = [a EXCEPT !.line = IF a.good = "UNSAID" THEN "unknown" ELSE @]
    OBVIOUS
  <2> PICK c : c = IF MelissaNamed(a) THEN 85 ELSE IF a.good # "UNSAID" THEN 60 ELSE 30
    OBVIOUS
  <2>1. b.line \in LineTypes
    BY <1>1 DEF Answer, LineTypes
  <2>2. c \in 0..100
    OBVIOUS
  <2>3. PICK has \in SUBSET Parts : MelissaEnrich(a) = Line(b, has, c)
    BY <1>2 DEF MelissaEnrich
  <2> QED BY <2>1, <2>2, <2>3, LineType
<1>5. IpqsEnrich(a) \in EnrichmentData /\ IpqsEnrich(a).phones \in OwnLed
  BY <1>1, <1>2, LineType DEF IpqsEnrich
<1>6. NumverifyEnrich(a) \in EnrichmentData /\ NumverifyEnrich(a).phones \in OwnLed
  BY <1>1, <1>2, LineType DEF NumverifyEnrich
<1> QED BY <1>3, <1>4, <1>5, <1>6

\* The adapters that list the numbers of a person, BatchData apart, and the free ones.
LEMMA ListAdapters ==
  ASSUME NEW a \in Answer
  PROVE  /\ TrestleEnrich(a) \in EnrichmentData /\ TrestleEnrich(a).phones \in OwnLed
         /\ EndatoEnrich(a) \in EnrichmentData /\ EndatoEnrich(a).phones \in OwnLed
         /\ SearchBugEnrich(a) \in EnrichmentData /\ SearchBugEnrich(a).phones \in OwnLed
         /\ EngineEnrich(a) \in EnrichmentData /\ EngineEnrich(a).phones \in OwnLed
         /\ MockEnrich(a) \in EnrichmentData /\ MockEnrich(a).phones \in OwnLed
<1>1. a.line \in LineTypes /\ a.score \in Nat /\ a.deed \in Deeds /\ "unknown" \in Deeds
  BY AnswerFields DEF Deeds
<1>2. \A phones \in OwnLed, has \in SUBSET Parts, ownership \in Deeds, confidence \in 0..100 :
        /\ Person(phones, has, ownership, confidence) \in EnrichmentData
        /\ Person(phones, has, ownership, confidence).phones \in OwnLed
  BY OwnLedPhones, PersonType
<1>3. /\ \A c : When(c, Parts) \in SUBSET Parts /\ When(c, {"addresses"}) \in SUBSET Parts
      /\ \A c : {"addresses", "ageRange"} \cup When(c, {"emails", "relatives"}) \in SUBSET Parts
  <2>1. \A c : When(c, {"emails", "relatives"}) \in SUBSET Parts
    BY WhenParts DEF Parts
  <2> QED BY <2>1, WhenParts DEF Parts
<1>4. TrestleEnrich(a) \in EnrichmentData /\ TrestleEnrich(a).phones \in OwnLed
  <2>1. PICK base \in Nat : base = CASE a.name -> 85
                                    [] ~a.name /\ a.score # NoScore -> AtMost(95, a.score)
                                    [] ~a.name /\ a.score = NoScore -> IF a.good # "NO" THEN 65 ELSE 30
    BY <1>1, AnswerFields DEF AtMost
  <2>2. PICK c \in 0..100 : c = AtMost(98, base + (IF a.rest THEN 5 ELSE 0))
    BY DEF AtMost
  <2>3. PICK has \in SUBSET Parts : has = When(a.name /\ a.rest, Parts)
    BY <1>3
  <2>6. TrestleEnrich(a) = Person(TrestlePhones(a), has, "unknown", c)
    BY <2>1, <2>2, <2>3 DEF TrestleEnrich
  <2>4. TrestlePhones(a) \in OwnLed
    BY OwnFirstAdapters
  <2>5. /\ Person(TrestlePhones(a), has, "unknown", c) \in EnrichmentData
        /\ Person(TrestlePhones(a), has, "unknown", c).phones \in OwnLed
    BY <1>1, <1>2, <2>4
  <2> QED BY <2>5, <2>6
<1>5. EndatoEnrich(a) \in EnrichmentData /\ EndatoEnrich(a).phones \in OwnLed
  BY <1>1, <1>2, <1>3, OwnFirstAdapters DEF EndatoEnrich
<1>6. SearchBugEnrich(a) \in EnrichmentData /\ SearchBugEnrich(a).phones \in OwnLed
  BY <1>1, <1>2, <1>3, SearchBugType DEF SearchBugEnrich
<1>7. EngineEnrich(a) \in EnrichmentData /\ EngineEnrich(a).phones \in OwnLed
  BY <1>1, <1>2, <1>3, OwnFirstAdapters DEF EngineEnrich
<1>8. MockEnrich(a) \in EnrichmentData /\ MockEnrich(a).phones \in OwnLed
  <2>1. 60 + (a.score % 40) \in 0..100
    BY <1>1
  <2>2. <<Phone(Own, a.line, a.good # "NO", TRUE)>> \in OwnLed
    BY <1>1, OwnAlone
  <2> QED BY <1>1, <1>2, <1>3, <2>1, <2>2 DEF MockEnrich
<1> QED BY <1>4, <1>5, <1>6, <1>7, <1>8

\* BatchData's answer is data like the others', but for what it calls primary.
LEMMA BatchDataAdapter == \A a \in Answer : BatchDataEnrich(a) \in EnrichmentData
<1> SUFFICES ASSUME NEW a \in Answer PROVE BatchDataEnrich(a) \in EnrichmentData
  OBVIOUS
<1>1. a.score \in Nat /\ a.deed \in Deeds
  BY AnswerFields
<1>2. When(a.rest, Parts) \in SUBSET Parts
  BY WhenParts
<1> PICK c : c = IF a.score # NoScore THEN AtMost(100, a.score) ELSE 80
  OBVIOUS
<1>3. c \in 0..100
  BY <1>1 DEF AtMost
<1>4. PICK has \in SUBSET Parts : \E phones : BatchDataEnrich(a) = Person(phones, has, a.deed, c)
  BY <1>2 DEF BatchDataEnrich
<1>5. PICK phones : BatchDataEnrich(a) = Person(phones, has, a.deed, c)
  BY <1>4
<1>6. phones \in Seq(EnrichedPhone)
  BY <1>5, BatchDataType DEF Person
<1>7. Person(phones, has, a.deed, c) \in EnrichmentData
  BY <1>1, <1>3, <1>4, <1>6, PersonType
<1> QED BY <1>5, <1>7

\* Every adapter's answer is an enrichment.
LEMMA EnrichmentType ==
  \A code \in Adapters, a \in Answer : [code |-> code, data |-> enrichPerson(code, a)] \in Enrichments
<1> SUFFICES ASSUME NEW code \in Adapters, NEW a \in Answer
             PROVE  /\ enrichPerson(code, a) \in EnrichmentData
                    /\ code # "BATCHDATA" => enrichPerson(code, a).phones \in OwnLed
  BY DEF Enrichments, EnrichmentData
<1>1. CASE code \in {"TWILIO", "MELISSA", "IPQS", "NUMVERIFY"}
  BY <1>1, LineAdapters DEF enrichPerson
<1>2. CASE code \in {"TRESTLE", "ENDATO", "SEARCHBUG", "LEADTRACE_ENGINE", "MOCK"}
  BY <1>2, ListAdapters DEF enrichPerson
<1>3. CASE code = "BATCHDATA"
  BY <1>3, BatchDataAdapter DEF enrichPerson
<1> QED BY <1>1, <1>2, <1>3 DEF Adapters

-----------------------------------------------------------------------------
(* Merging enrichments                                                     *)

\* The loop that joins phones is FoldTheorems' fold.
LEMMA JoinedPhonesFold ==
  ASSUME NEW base, NEW s
  PROVE  JoinedPhones!Folded(base, s) = FoldLeft(JoinPhone, base, s)
BY Zenon DEF JoinedPhones!Folded, FoldLeft, MapThenFoldSet, Max, JoinedPhones!FoldLeft,
   JoinedPhones!MapThenFoldSet, JoinedPhones!Max

\* So is the merge of the answers' phones,
LEMMA JoinedAnswersFold ==
  ASSUME NEW base, NEW s
  PROVE  JoinedAnswers!Folded(base, s) = FoldLeft(JoinPhones, base, s)
BY Zenon DEF JoinedAnswers!Folded, FoldLeft, MapThenFoldSet, Max, JoinedAnswers!FoldLeft,
   JoinedAnswers!MapThenFoldSet, JoinedAnswers!Max

\* and the sum of their confidences.
LEMMA SummedConfidencesFold ==
  ASSUME NEW base, NEW s
  PROVE  SummedConfidences!Folded(base, s) = FoldLeft(AddConfidence, base, s)
BY Zenon DEF SummedConfidences!Folded, FoldLeft, MapThenFoldSet, Max, SummedConfidences!FoldLeft,
   SummedConfidences!MapThenFoldSet, SummedConfidences!Max

\* The fields of an enrichment.
LEMMA EnrichmentFields ==
  ASSUME NEW e \in Enrichments
  PROVE  /\ e.code \in Adapters /\ e.data.phones \in Seq(EnrichedPhone) /\ e.data.has \in SUBSET Parts
         /\ e.data.ownership \in Deeds /\ e.data.providerConfidence \in 0..100
         /\ e.data.providerConfidence \in Nat
         /\ e.code # "BATCHDATA" => e \in OwnEnrichments
<1>1. /\ e.code \in Adapters /\ e.data.phones \in Seq(EnrichedPhone) /\ e.data.has \in SUBSET Parts
      /\ e.data.ownership \in Deeds /\ e.data.providerConfidence \in 0..100
      /\ e.code # "BATCHDATA" => e \in OwnEnrichments
  BY DEF Enrichments, OwnEnrichments
<1>2. \A n \in 0..100 : n \in Nat
  OBVIOUS
<1> QED BY <1>1, <1>2

\* One more report of a number is a phone of that number, primary if either was.
LEMMA CorroboratedType ==
  ASSUME NEW p \in EnrichedPhone, NEW q \in EnrichedPhone, p.number = q.number
  PROVE  /\ Corroborated(p, q) \in EnrichedPhone
         /\ Corroborated(p, q).isPrimary <=> p.isPrimary \/ q.isPrimary
         /\ p \in OwnPhone /\ q \in OwnPhone => Corroborated(p, q) \in OwnPhone
<1> PICK x : x = Corroborated(p, q)
  OBVIOUS
<1>1. x.number = p.number /\ x.lineType \in LineTypes
  BY DEF Corroborated, EnrichedPhone
<1>2. x.active \in BOOLEAN
  BY DEF Corroborated, EnrichedPhone
<1>3. x.isPrimary \in BOOLEAN
  BY DEF Corroborated, EnrichedPhone
<1>4. x.verifiedBy \in Nat
  BY DEF Corroborated, EnrichedPhone
<1>5. x.isPrimary <=> p.isPrimary \/ q.isPrimary
  BY DEF Corroborated, EnrichedPhone
<1>6. x = [number |-> x.number, lineType |-> x.lineType, active |-> x.active,
           isPrimary |-> x.isPrimary, verifiedBy |-> x.verifiedBy]
  BY DEF Corroborated, EnrichedPhone
<1>7. x \in EnrichedPhone
  BY <1>1, <1>2, <1>3, <1>4, <1>6 DEF EnrichedPhone
<1>8. p \in OwnPhone /\ q \in OwnPhone => x \in OwnPhone
  BY <1>1, <1>5, <1>7 DEF OwnPhone
<1> QED BY <1>5, <1>7, <1>8

\* Joining a phone to a list: it is still a list of phones, of the lead's own if they all
\* were, and one of them is primary if one was or the new one is.
LEMMA JoinPhoneType ==
  ASSUME NEW S \in {EnrichedPhone, OwnPhone}, NEW phones \in Seq(S), NEW q \in S
  PROVE  /\ JoinPhone(phones, q) \in Seq(S)
         /\ q.isPrimary \/ (\E i \in DOMAIN phones : phones[i].isPrimary) =>
              \E i \in DOMAIN JoinPhone(phones, q) : JoinPhone(phones, q)[i].isPrimary
<1>1. S \subseteq EnrichedPhone
  BY DEF OwnPhone
<1>2. /\ Len(phones) \in Nat /\ DOMAIN phones = 1..Len(phones)
      /\ \A i \in DOMAIN phones : i \in Nat /\ phones[i] \in S
  BY ListDomain
<1>3. CASE \A i \in DOMAIN phones : phones[i].number # q.number
  <2>1. JoinPhone(phones, q) = Append(phones, q)
    BY <1>3 DEF JoinPhone
  <2>2. /\ Append(phones, q) \in Seq(S)
        /\ DOMAIN Append(phones, q) = 1..(Len(phones) + 1)
        /\ \A i \in 1..Len(phones) : Append(phones, q)[i] = phones[i]
        /\ Append(phones, q)[Len(phones) + 1] = q
    BY <1>2, AppendProperties
  <2>3. /\ DOMAIN phones \subseteq DOMAIN Append(phones, q)
        /\ Len(phones) + 1 \in DOMAIN Append(phones, q)
    BY <1>2, <2>2
  <2> QED BY <1>2, <2>1, <2>2, <2>3
<1>4. CASE ~\A i \in DOMAIN phones : phones[i].number # q.number
  <2> PICK out : out = [i \in DOMAIN phones |->
                          IF phones[i].number = q.number THEN Corroborated(phones[i], q) ELSE phones[i]]
    OBVIOUS
  <2>1. JoinPhone(phones, q) = out
    BY <1>4 DEF JoinPhone
  <2>2. \A i \in DOMAIN phones :
          /\ out[i] \in S
          /\ phones[i].isPrimary => out[i].isPrimary
          /\ phones[i].number = q.number /\ q.isPrimary => out[i].isPrimary
    <3> SUFFICES ASSUME NEW i \in DOMAIN phones
                 PROVE  /\ out[i] \in S
                        /\ phones[i].isPrimary => out[i].isPrimary
                        /\ phones[i].number = q.number /\ q.isPrimary => out[i].isPrimary
      OBVIOUS
    <3>1. phones[i] \in S /\ phones[i] \in EnrichedPhone /\ q \in EnrichedPhone
      BY <1>1, <1>2
    <3>2. CASE phones[i].number = q.number
      BY <3>1, <3>2, CorroboratedType
    <3>3. CASE phones[i].number # q.number
      BY <3>1, <3>3
    <3> QED BY <3>2, <3>3
  <2>3. out \in [1..Len(phones) -> S] /\ DOMAIN out = DOMAIN phones
    BY <1>2, <2>2
  <2>4. out \in Seq(S)
    BY <1>2, <2>3, ListOf
  <2>5. q.isPrimary => \E i \in DOMAIN out : out[i].isPrimary
    BY <1>4, <2>2, <2>3
  <2> QED BY <2>1, <2>2, <2>3, <2>4, <2>5
<1> QED BY <1>3, <1>4

\* So is joining all the phones of an answer.
LEMMA JoinPhonesType ==
  ASSUME NEW phones \in Seq(EnrichedPhone), NEW r \in Enrichments
  PROVE  JoinPhones(phones, r) \in Seq(EnrichedPhone)
<1>1. JoinedPhones!Closed(Seq(EnrichedPhone), EnrichedPhone)
  BY JoinPhoneType DEF JoinedPhones!Closed
<1>2. r.data.phones \in Seq(EnrichedPhone)
  BY EnrichmentFields
<1>3. JoinedPhones!Folded(phones, r.data.phones) \in Seq(EnrichedPhone)
  BY <1>1, <1>2, JoinedPhones!FoldType
<1> QED BY <1>3, JoinedPhonesFold DEF JoinPhones

\* An answer led by the lead's own number leads what it is joined to.
LEMMA JoinPhonesLed ==
  ASSUME NEW phones \in Seq(OwnPhone), NEW r \in OwnEnrichments
  PROVE  JoinPhones(phones, r) \in OwnLed
<1>1. JoinedPhones!Closed(Seq(OwnPhone), OwnPhone)
  BY JoinPhoneType DEF JoinedPhones!Closed
<1>2. JoinedPhones!Closed(OwnLed, OwnPhone)
  BY JoinPhoneType DEF JoinedPhones!Closed, OwnLed
<1>3. r.data.phones \in Seq(OwnPhone) /\ \E i \in DOMAIN r.data.phones : r.data.phones[i].isPrimary
  BY DEF OwnEnrichments, OwnLed
<1>4. PICK i \in 1..Len(r.data.phones) : r.data.phones[i].isPrimary /\ r.data.phones[i] \in OwnPhone
  BY <1>3, ListDomain
<1>5. \A x \in Seq(OwnPhone) : JoinPhone(x, r.data.phones[i]) \in OwnLed
  BY <1>4, JoinPhoneType DEF OwnLed
<1>6. JoinedPhones!Folded(phones, r.data.phones) \in OwnLed
  BY <1>1, <1>2, <1>3, <1>5, JoinedPhones!FoldReaches
<1> QED BY <1>6, JoinedPhonesFold DEF JoinPhones

\* Sorting keeps phones phones, and a primary one among them.
LEMMA SortedPhones ==
  ASSUME NEW S, NEW phones \in Seq(S), NEW key \in [DOMAIN phones -> Nat]
  PROVE  /\ StableSort(phones, key) \in Seq(S)
         /\ phones \in OwnLed => StableSort(phones, key) \in OwnLed
<1>1. /\ StableSort(phones, key) \in Seq(S)
      /\ DOMAIN StableSort(phones, key) = DOMAIN phones
      /\ \A i \in DOMAIN phones : \E k \in DOMAIN phones : StableSort(phones, key)[k] = phones[i]
  BY SortKeeps
<1>2. ASSUME phones \in OwnLed PROVE StableSort(phones, key) \in OwnLed
  <2>1. phones \in Seq(OwnPhone) /\ \E i \in DOMAIN phones : phones[i].isPrimary
    BY <1>2 DEF OwnLed
  <2>2. StableSort(phones, key) \in Seq(OwnPhone)
    BY <2>1, SortKeeps
  <2> QED BY <1>1, <2>1, <2>2 DEF OwnLed
<1> QED BY <1>1, <1>2

\* The merged phones, of whichever answers.
LEMMA MergedPhonesType ==
  ASSUME NEW results \in Seq(Enrichments), results # <<>>
  PROVE  /\ MergedPhones(results) \in Seq(EnrichedPhone)
         /\ results \in Seq(OwnEnrichments) => MergedPhones(results) \in OwnLed
<1> PICK phones : phones = FoldLeft(JoinPhones, <<>>, results)
  OBVIOUS
<1>1. phones \in Seq(EnrichedPhone)
  <2>1. JoinedAnswers!Closed(Seq(EnrichedPhone), Enrichments)
    BY JoinPhonesType DEF JoinedAnswers!Closed
  <2>2. <<>> \in Seq(EnrichedPhone)
    OBVIOUS
  <2>3. JoinedAnswers!Folded(<<>>, results) \in Seq(EnrichedPhone)
    BY <2>1, <2>2, JoinedAnswers!FoldType
  <2> QED BY <2>3, JoinedAnswersFold
<1>2. ASSUME results \in Seq(OwnEnrichments) PROVE phones \in OwnLed
  <2>1. OwnLed \subseteq Seq(OwnPhone)
    BY DEF OwnLed
  <2>2. /\ JoinedAnswers!Closed(Seq(OwnPhone), OwnEnrichments)
        /\ JoinedAnswers!Closed(OwnLed, OwnEnrichments)
    BY <2>1, JoinPhonesLed DEF JoinedAnswers!Closed
  <2>3. 1 \in 1..Len(results) /\ results[1] \in OwnEnrichments
    BY <1>2, EmptySeq, LenProperties
  <2>4. \A x \in Seq(OwnPhone) : JoinPhones(x, results[1]) \in OwnLed
    BY <2>3, JoinPhonesLed
  <2>5. <<>> \in Seq(OwnPhone)
    OBVIOUS
  <2>6. JoinedAnswers!Folded(<<>>, results) \in OwnLed
    BY <1>2, <2>2, <2>3, <2>4, <2>5, JoinedAnswers!FoldReaches
  <2> QED BY <2>6, JoinedAnswersFold
<1> PICK byReports : byReports = StableSort(phones, [i \in DOMAIN phones |-> phones[i].verifiedBy])
  OBVIOUS
<1>3. MergedPhones(results)
        = StableSort(byReports, [i \in DOMAIN byReports |-> IF byReports[i].isPrimary THEN 1 ELSE 0])
  BY DEF MergedPhones
<1>4. [i \in DOMAIN phones |-> phones[i].verifiedBy] \in [DOMAIN phones -> Nat]
  <2>1. \A i \in DOMAIN phones : phones[i] \in EnrichedPhone
    BY <1>1, ListDomain
  <2>2. \A i \in DOMAIN phones : phones[i].verifiedBy \in Nat
    BY <2>1 DEF EnrichedPhone
  <2> QED BY <2>2
<1>5. byReports \in Seq(EnrichedPhone) /\ (phones \in OwnLed => byReports \in OwnLed)
  BY <1>1, <1>4, SortedPhones
<1>6. [i \in DOMAIN byReports |-> IF byReports[i].isPrimary THEN 1 ELSE 0] \in [DOMAIN byReports -> Nat]
  OBVIOUS
<1>7. /\ MergedPhones(results) \in Seq(EnrichedPhone)
      /\ byReports \in OwnLed => MergedPhones(results) \in OwnLed
  BY <1>3, <1>5, <1>6, SortedPhones
<1> QED BY <1>2, <1>5, <1>7

\* The least of some positions is one of them.
LEMMA LeastIn == \A T \in SUBSET Nat : T # {} => Min(T) \in T
BY AddNews!MinIn DEF Min, AddNews!Min

\* An accuracy is brought between 5 and 99.
LEMMA BetweenType == \A n \in Int : Between(5, 99, n) \in 0..100
BY DEF Between, AtMost

\* The most confident answer is one of the answers.
LEMMA BestType ==
  ASSUME NEW results \in Seq(Enrichments), results # <<>>
  PROVE  \E i \in DOMAIN results : Best(results) = results[i].data
<1> PICK key : key = [i \in DOMAIN results |-> results[i].data.providerConfidence]
  OBVIOUS
<1>1. key \in [DOMAIN results -> Nat]
  <2>1. \A i \in DOMAIN results : results[i].data.providerConfidence \in Nat
    BY ListDomain, EnrichmentFields
  <2> QED BY <2>1
<1>2. 1 \in DOMAIN results
  BY ListDomain, EmptySeq
<1>3. \E i \in DOMAIN results : StableSort(results, key)[1] = results[i]
  BY <1>1, <1>2, SortKeeps
<1>4. Best(results) = StableSort(results, key)[1].data
  BY DEF Best
<1> QED BY <1>3, <1>4

\* Who owns the property is what one of the answers says.
LEMMA OwnershipType ==
  ASSUME NEW results \in Seq(Enrichments), results # <<>>
  PROVE  MergedOwnership(results) \in Deeds
<1> PICK said : said = {i \in DOMAIN results : results[i].data.ownership # Unknown}
  OBVIOUS
<1>1. \A i \in DOMAIN results : results[i].data.ownership \in Deeds
  BY ListDomain, EnrichmentFields
<1>2. MergedOwnership(results) = IF said = {} THEN Best(results).ownership ELSE results[Min(said)].data.ownership
  BY DEF MergedOwnership
<1>3. said # {} => Min(said) \in DOMAIN results
  <2>1. said \in SUBSET Nat
    BY Positions
  <2> QED BY <2>1, LeastIn
<1> QED BY <1>1, <1>2, <1>3, BestType

\* The sum of the confidences is a natural number, and the accuracy a percentage.
LEMMA AccuracyType ==
  ASSUME NEW results \in Seq(Enrichments), results # <<>>, NEW phones \in Seq(EnrichedPhone)
  PROVE  MergedAccuracy(results, phones) \in 0..100
<1> PICK total : total = FoldLeft(AddConfidence, 0, results)
  OBVIOUS
<1>1. total \in Nat
  <2>1. SummedConfidences!Closed(Nat, Enrichments)
    <3> SUFFICES ASSUME NEW sum \in Nat, NEW r \in Enrichments PROVE AddConfidence(sum, r) \in Nat
      BY DEF SummedConfidences!Closed
    <3>1. PICK c \in Nat : c = r.data.providerConfidence
      BY EnrichmentFields
    <3>2. AddConfidence(sum, r) = sum + c
      BY <3>1 DEF AddConfidence
    <3> QED BY <3>1, <3>2
  <2>2. SummedConfidences!Folded(0, results) \in Nat
    BY <2>1, SummedConfidences!FoldType
  <2> QED BY <2>2, SummedConfidencesFold
<1> PICK n : n = Len(results)
  OBVIOUS
<1>2. n \in Nat /\ n >= 1
  BY ListDomain, EmptySeq
<1> PICK verified : verified = Cardinality({i \in DOMAIN phones : phones[i].verifiedBy >= 2})
  OBVIOUS
<1>3. verified \in Nat
  BY Positions
<1> PICK bonus : bonus = AtMost(20, 8 * verified + 5 * (n - 1))
  OBVIOUS
<1>4. bonus \in Nat
  BY <1>2, <1>3 DEF AtMost
<1>5. MergedAccuracy(results, phones) = Between(5, 99, Round(4 * total + 5 * n * bonus, 5 * n))
  BY DEF MergedAccuracy
<1>6. Round(4 * total + 5 * n * bonus, 5 * n) \in Int
  <2>1. \A num \in Nat, den \in Nat : den > 0 => Round(num, den) \in Int
    BY DEF Round
  <2>2. 5 * n \in Nat /\ 5 * n > 0
    BY <1>2
  <2>3. 5 * n * bonus \in Nat
    <3>1. \A x \in Nat, y \in Nat : x * y \in Nat
      OBVIOUS
    <3> QED BY <1>4, <2>2, <3>1
  <2>4. 4 * total + 5 * n * bonus \in Nat
    BY <1>1, <2>3
  <2> QED BY <2>1, <2>2, <2>4
<1> QED BY <1>5, <1>6, BetweenType

\* Merging keeps to the parts its answers have, and to the lead's own number.
LEMMA MergeIsPerson ==
  ASSUME NEW results \in Seq(Enrichments), results # <<>>
  PROVE  IsPerson(mergeEnrichments(results))
<1> PICK one : one = results[1].data
  OBVIOUS
<1> PICK sources : sources = [i \in DOMAIN results |-> results[i].code]
  OBVIOUS
<1>1. /\ Len(results) \in Nat /\ DOMAIN results = 1..Len(results) /\ 1 \in DOMAIN results
      /\ \A i \in DOMAIN results : results[i] \in Enrichments
  BY ListDomain, EmptySeq
<1>2. /\ one.phones \in Seq(EnrichedPhone) /\ one.has \in SUBSET Parts /\ one.ownership \in Deeds
      /\ one.providerConfidence \in 0..100
  BY <1>1, EnrichmentFields
<1>3. sources \in Seq(Adapters)
  <2>1. sources \in [1..Len(results) -> Adapters]
    BY <1>1, EnrichmentFields
  <2> QED BY <1>1, <2>1, ListOf
<1>4. ASSUME "BATCHDATA" \notin ToSet(sources) PROVE results \in Seq(OwnEnrichments)
  <2>1. \A i \in DOMAIN results : results[i].code # "BATCHDATA"
    BY <1>4 DEF ToSet
  <2>2. results \in [1..Len(results) -> OwnEnrichments]
    BY <1>1, <2>1, EnrichmentFields, ListDomain
  <2> QED BY <1>1, <2>2, ListOf
<1>5. CASE Len(results) = 1
  <2>1. mergeEnrichments(results)
          = [phones |-> one.phones, has |-> one.has, ownership |-> one.ownership,
             accuracy |-> one.providerConfidence, sources |-> sources]
    BY <1>5 DEF mergeEnrichments
  <2>2. "BATCHDATA" \notin ToSet(sources) => one.phones \in OwnLed
    BY <1>1, <1>4, ListDomain DEF OwnEnrichments
  <2> QED BY <1>2, <1>3, <2>1, <2>2 DEF IsPerson
<1>6. CASE Len(results) # 1
  <2> PICK phones : phones = MergedPhones(results)
    OBVIOUS
  <2> PICK has : has = (UNION {results[i].data.has : i \in DOMAIN results} \ {"ageRange"})
                         \cup (Best(results).has \cap {"ageRange"})
    OBVIOUS
  <2>1. mergeEnrichments(results)
          = [phones |-> phones, has |-> has, ownership |-> MergedOwnership(results),
             accuracy |-> MergedAccuracy(results, phones), sources |-> sources]
    BY <1>6 DEF mergeEnrichments
  <2>2. has \in SUBSET Parts
    <3>1. \A i \in DOMAIN results : results[i].data.has \subseteq Parts
      BY <1>1, EnrichmentFields
    <3> QED BY <3>1 DEF Parts
  <2>3. phones \in Seq(EnrichedPhone) /\ ("BATCHDATA" \notin ToSet(sources) => phones \in OwnLed)
    BY <1>4, MergedPhonesType
  <2>4. MergedOwnership(results) \in Deeds /\ MergedAccuracy(results, phones) \in 0..100
    BY <2>3, OwnershipType, AccuracyType
  <2> QED BY <1>3, <2>1, <2>2, <2>3, <2>4 DEF IsPerson
<1> QED BY <1>5, <1>6

\* A lead nobody knows anything of has no phones.
LEMMA NobodyIsPerson == IsPerson(NoPerson)
<1>1. \A S : <<>> \in Seq(S)
  OBVIOUS
<1> QED BY <1>1 DEF IsPerson, NoPerson, Deeds, Unknown

\* A carrier match moves the accuracy and nothing else.
LEMMA AttachIsPerson ==
  ASSUME NEW p, IsPerson(p), NEW match \in IdentityScores
  PROVE  IsPerson(attachVerification(p, match))
<1>1. match \in 0..100
  BY InputsAssumption
<1>2. CASE p = NoPerson
  <2>1. attachVerification(p, match)
          = [phones |-> <<>>, has |-> {}, ownership |-> Unknown, accuracy |-> match, sources |-> <<"TWILIO">>]
    BY <1>2 DEF attachVerification, NoPerson
  <2>2. <<"TWILIO">> \in Seq(Adapters)
    BY OneElement DEF Adapters
  <2>3. <<>> \in Seq(EnrichedPhone)
    OBVIOUS
  <2> QED BY <1>1, <2>1, <2>2, <2>3 DEF IsPerson, Deeds, Unknown
<1>3. CASE p # NoPerson
  <2> PICK delta : delta = IF match >= 80 THEN 8 ELSE IF match >= 70 THEN 4 ELSE IF match <= 20 THEN -12 ELSE 0
    OBVIOUS
  <2> PICK accuracy : accuracy = Between(5, 99, p.accuracy + delta)
    OBVIOUS
  <2>1. attachVerification(p, match) = [p EXCEPT !.accuracy = accuracy]
    BY <1>3 DEF attachVerification, IsPerson
  <2>2. accuracy \in 0..100
    <3>1. p.accuracy \in 0..100
      BY DEF IsPerson
    <3>2. delta \in Int
      BY <1>1
    <3>3. p.accuracy + delta \in Int
      BY <3>1, <3>2
    <3> QED BY <3>3, BetweenType
  <2> QED BY <2>1, <2>2 DEF IsPerson
<1> QED BY <1>2, <1>3

\* The phone the score is about is one of the phones, and a primary one if there is any.
LEMMA ScoredIsListed ==
  ASSUME NEW S, NEW phones \in Seq(S), phones # <<>>
  PROVE  \E i \in DOMAIN phones :
           /\ ScoredPhone(phones) = <<phones[i]>>
           /\ (\E j \in DOMAIN phones : phones[j].isPrimary) => phones[i].isPrimary
<1> PICK primary : primary = {i \in DOMAIN phones : phones[i].isPrimary}
  OBVIOUS
<1>1. 1 \in DOMAIN phones
  BY ListDomain, EmptySeq
<1>2. primary # {} => Min(primary) \in primary
  <2>1. primary \in SUBSET Nat
    BY Positions
  <2> QED BY <2>1, LeastIn
<1>3. ScoredPhone(phones) = <<phones[IF primary # {} THEN Min(primary) ELSE 1]>>
  BY DEF ScoredPhone
<1> QED BY <1>1, <1>2, <1>3

\* So the lead's own number is the one that is scored.
LEMMA OwnIsScored ==
  ASSUME NEW p, IsPerson(p), "BATCHDATA" \notin ToSet(p.sources)
  PROVE  \A i \in DOMAIN ScoredPhone(p.phones) : ScoredPhone(p.phones)[i].number = Own
<1>1. CASE p.phones = <<>>
  BY <1>1 DEF ScoredPhone
<1>2. CASE p.phones \in OwnLed
  <2>1. /\ p.phones \in Seq(OwnPhone) /\ p.phones # <<>>
        /\ \E i \in DOMAIN p.phones : p.phones[i].isPrimary
    BY <1>2 DEF OwnLed
  <2>2. PICK i \in DOMAIN p.phones : ScoredPhone(p.phones) = <<p.phones[i]>> /\ p.phones[i].isPrimary
    BY <2>1, ScoredIsListed
  <2>3. p.phones[i] \in OwnPhone
    BY <2>1, ListDomain
  <2>4. p.phones[i].number = Own
    BY <2>2, <2>3 DEF OwnPhone
  <2> QED BY <2>2, <2>4
<1> QED BY <1>1, <1>2 DEF IsPerson

-----------------------------------------------------------------------------
(* What a search finds                                                     *)

\* A match made of an answer is one.
LEMMA MatchType ==
  ASSUME NEW code \in Adapters, NEW name \in BOOLEAN, NEW phones \in Seq(EnrichedPhone), NEW confidence \in Nat
  PROVE  Match(code, name, phones, confidence) \in FoundMatch
<1> PICK listed : listed = [i \in DOMAIN phones |-> [number |-> phones[i].number, isPrimary |-> phones[i].isPrimary]]
  OBVIOUS
<1>1. listed \in Seq([number: Numbers, isPrimary: BOOLEAN])
  <2>1. /\ Len(phones) \in Nat /\ DOMAIN phones = 1..Len(phones)
        /\ \A i \in DOMAIN phones : phones[i] \in EnrichedPhone
    BY ListDomain
  <2>2. \A p \in EnrichedPhone :
          [number |-> p.number, isPrimary |-> p.isPrimary] \in [number: Numbers, isPrimary: BOOLEAN]
    BY DEF EnrichedPhone
  <2>3. listed \in [1..Len(phones) -> [number: Numbers, isPrimary: BOOLEAN]]
    BY <2>1, <2>2
  <2> QED BY <2>1, <2>3, ListOf
<1>2. Match(code, name, phones, confidence)
        = [source |-> code, name |-> name, verifiedBy |-> 1, confidence |-> confidence, phones |-> listed]
  BY DEF Match
<1> QED BY <1>1, <1>2 DEF FoundMatch

\* One match for each person.
LEMMA EachType ==
  ASSUME NEW people \in Seq(Answer), NEW S, NEW found \in [DOMAIN people -> S]
  PROVE  found \in Seq(S)
<1>1. Len(people) \in Nat /\ DOMAIN people = 1..Len(people)
  BY ListDomain
<1> QED BY <1>1, ListOf

\* Those people are answers.
LEMMA PeopleAreAnswers == ASSUME NEW people \in Seq(Answer) PROVE \A i \in DOMAIN people : people[i] \in Answer
  BY ListDomain

\* One match, of the number asked for.
LEMMA OneType ==
  ASSUME NEW code \in Adapters, NEW a \in Answer, NEW confidence \in Nat
  PROVE  One(code, a, confidence) \in Seq(FoundMatch)
<1>1. <<Phone(Own, a.line, TRUE, TRUE)>> \in Seq(EnrichedPhone) /\ a.name \in BOOLEAN
  BY AnswerFields, OwnAlone, OwnLedPhones
<1>2. Match(code, a.name, <<Phone(Own, a.line, TRUE, TRUE)>>, confidence) \in FoundMatch
  BY <1>1, MatchType
<1> QED BY <1>2, OneElement DEF One

\* The phones of someone in the house's own records.
LEMMA FirstIsPrimaryType == \A a \in Answer : FirstIsPrimary(a) \in Seq(EnrichedPhone)
<1> SUFFICES ASSUME NEW a \in Answer PROVE FirstIsPrimary(a) \in Seq(EnrichedPhone)
  OBVIOUS
<1> PICK phones : phones = FoldLeft(AddNew, <<>>, Listed(a, TRUE))
  OBVIOUS
<1>1. phones \in Seq(EnrichedPhone)
  <2>1. phones \in Seq(OwnPhone)
    BY ListedType, DistinctType
  <2>2. OwnPhone \subseteq EnrichedPhone
    BY DEF OwnPhone
  <2> QED BY <2>1, <2>2, SeqGrows
<1>2. /\ Len(phones) \in Nat /\ DOMAIN phones = 1..Len(phones)
      /\ \A i \in DOMAIN phones : phones[i] \in EnrichedPhone
  BY <1>1, ListDomain
<1>3. \A p \in EnrichedPhone : [p EXCEPT !.isPrimary = TRUE] \in EnrichedPhone
  BY DEF EnrichedPhone
<1>4. FirstIsPrimary(a) \in [1..Len(phones) -> EnrichedPhone]
  BY <1>2, <1>3 DEF FirstIsPrimary
<1> QED BY <1>2, <1>4, ListOf

\* The adapters that describe the number asked for.
LEMMA NumberSearches ==
  ASSUME NEW people \in Seq(Answer), people # <<>>
  PROVE  /\ TwilioSearch(people) \in Seq(FoundMatch) /\ MelissaSearch(people) \in Seq(FoundMatch)
         /\ IpqsSearch(people) \in Seq(FoundMatch)
<1> PICK a \in Answer : a = Head(people)
  OBVIOUS
<1>0. {"TWILIO", "MELISSA", "IPQS"} \subseteq Adapters
  BY DEF Adapters
<1>2. \A S : <<>> \in Seq(S)
  OBVIOUS
<1>3. TwilioSearch(people) \in Seq(FoundMatch)
  <2> PICK c \in Nat : c = IF a.name THEN 78 ELSE 40
    OBVIOUS
  <2>1. One("TWILIO", a, c) \in Seq(FoundMatch)
    BY <1>0, OneType
  <2> QED BY <2>1 DEF TwilioSearch
<1>4. MelissaSearch(people) \in Seq(FoundMatch)
  <2> PICK c \in Nat : c = IF a.name THEN 80 ELSE 45
    OBVIOUS
  <2>1. One("MELISSA", a, c) \in Seq(FoundMatch)
    BY <1>0, OneType
  <2> QED BY <1>2, <2>1 DEF MelissaSearch
<1>5. IpqsSearch(people) \in Seq(FoundMatch)
  <2> PICK c \in Nat : c = IF a.name THEN 65 ELSE 40
    OBVIOUS
  <2>1. One("IPQS", a, c) \in Seq(FoundMatch)
    BY <1>0, OneType
  <2> QED BY <1>2, <2>1 DEF IpqsSearch
<1> QED BY <1>3, <1>4, <1>5

\* Those that list people.
LEMMA PeopleSearches ==
  ASSUME NEW people \in Seq(Answer)
  PROVE  /\ TrestleSearch(people) \in Seq(FoundMatch) /\ EndatoSearch(people) \in Seq(FoundMatch)
         /\ SearchBugSearch(people) \in Seq(FoundMatch) /\ BatchDataSearch(people) \in Seq(FoundMatch)
<1>0. {"TRESTLE", "ENDATO", "SEARCHBUG", "BATCHDATA"} \subseteq Adapters
  BY DEF Adapters
<1>1. TrestleSearch(people) \in Seq(FoundMatch)
  <2>1. TrestleSearch(people) \in [DOMAIN people -> FoundMatch]
    <3> SUFFICES ASSUME NEW i \in DOMAIN people
                 PROVE  Match("TRESTLE", people[i].name,
                              OwnFirst(Phone(Own, people[i].line, TRUE, TRUE), Listed(people[i], TRUE)), 85) \in FoundMatch
      BY DEF TrestleSearch, Each
    <3> PICK a \in Answer : a = people[i]
      BY PeopleAreAnswers
    <3>1. a.name \in BOOLEAN /\ OwnFirst(Phone(Own, a.line, TRUE, TRUE), Listed(a, TRUE)) \in Seq(EnrichedPhone)
      BY AnswerFields, OwnFirstAdapters, OwnLedPhones DEF EnginePhones
    <3>2. 85 \in Nat
      OBVIOUS
    <3>3. Match("TRESTLE", a.name, OwnFirst(Phone(Own, a.line, TRUE, TRUE), Listed(a, TRUE)), 85) \in FoundMatch
      BY <1>0, <3>1, <3>2, MatchType
    <3> QED BY <3>3
  <2> QED BY <2>1, EachType
<1>2. EndatoSearch(people) \in Seq(FoundMatch)
  <2>1. EndatoSearch(people) \in [DOMAIN people -> FoundMatch]
    <3> SUFFICES ASSUME NEW i \in DOMAIN people
                 PROVE  Match("ENDATO", people[i].name, EndatoPhones(people[i]),
                              IF people[i].name THEN 88 ELSE 45) \in FoundMatch
      BY DEF EndatoSearch, Each
    <3> PICK a \in Answer : a = people[i]
      BY PeopleAreAnswers
    <3> PICK c \in Nat : c = IF a.name THEN 88 ELSE 45
      OBVIOUS
    <3>1. a.name \in BOOLEAN /\ EndatoPhones(a) \in Seq(EnrichedPhone)
      BY AnswerFields, OwnFirstAdapters, OwnLedPhones
    <3>2. Match("ENDATO", a.name, EndatoPhones(a), c) \in FoundMatch
      BY <1>0, <3>1, MatchType
    <3> QED BY <3>2
  <2> QED BY <2>1, EachType
<1>3. SearchBugSearch(people) \in Seq(FoundMatch)
  <2>1. SearchBugSearch(people) \in [DOMAIN people -> FoundMatch]
    <3> SUFFICES ASSUME NEW i \in DOMAIN people
                 PROVE  Match("SEARCHBUG", people[i].name, SearchBugPhones(people[i]),
                              IF people[i].name THEN 88 ELSE 45) \in FoundMatch
      BY DEF SearchBugSearch, Each
    <3> PICK a \in Answer : a = people[i]
      BY PeopleAreAnswers
    <3> PICK c \in Nat : c = IF a.name THEN 88 ELSE 45
      OBVIOUS
    <3>1. a.name \in BOOLEAN /\ SearchBugPhones(a) \in Seq(EnrichedPhone)
      BY AnswerFields, SearchBugType, OwnLedPhones
    <3>2. Match("SEARCHBUG", a.name, SearchBugPhones(a), c) \in FoundMatch
      BY <1>0, <3>1, MatchType
    <3> QED BY <3>2
  <2> QED BY <2>1, EachType
<1>4. BatchDataSearch(people) \in Seq(FoundMatch)
  <2>1. BatchDataSearch(people) \in [DOMAIN people -> FoundMatch]
    <3> SUFFICES ASSUME NEW i \in DOMAIN people
                 PROVE  Match("BATCHDATA", people[i].name, BatchDataPhones(people[i]),
                              MatchConfidence(people[i].score)) \in FoundMatch
      BY DEF BatchDataSearch, Each
    <3> PICK a \in Answer : a = people[i]
      BY PeopleAreAnswers
    <3>0. a.name \in BOOLEAN /\ a.score \in Nat
      BY AnswerFields
    <3> PICK c \in Nat : c = MatchConfidence(a.score)
      <4>1. \A n \in Nat : MatchConfidence(n) \in Nat
        BY DEF MatchConfidence, Round
      <4> QED BY <3>0, <4>1
    <3>1. BatchDataPhones(a) \in Seq(EnrichedPhone)
      BY BatchDataType
    <3>2. Match("BATCHDATA", a.name, BatchDataPhones(a), c) \in FoundMatch
      BY <1>0, <3>0, <3>1, MatchType
    <3> QED BY <3>2
  <2> QED BY <2>1, EachType
<1> QED BY <1>1, <1>2, <1>3, <1>4

\* Those of somebody's people that are asked for are still answers.
LEMMA SomePeople ==
  ASSUME NEW people \in Seq(Answer), NEW I \in SUBSET DOMAIN people
  PROVE  At(people, I) \in Seq(Answer)
<1>1. I \in SUBSET Nat /\ IsFiniteSet(I)
  BY Positions
<1>2. \A i \in I : people[i] \in Answer
  BY ListDomain
<1> QED BY <1>1, <1>2, AtType

\* The house's own records, and the mock's.
LEMMA OwnSearches ==
  ASSUME NEW people \in Seq(Answer), people # <<>>, NEW q \in Queries
  PROVE  EngineSearch(people, q) \in Seq(FoundMatch) /\ MockSearch(people, q) \in Seq(FoundMatch)
<1>0. {"LEADTRACE_ENGINE", "MOCK"} \subseteq Adapters /\ TRUE \in BOOLEAN
  BY DEF Adapters
<1>1. EngineSearch(people, q) \in Seq(FoundMatch)
  <2> PICK leads \in Seq(Answer) : leads = At(people, {i \in DOMAIN people : Parsed(people[i]) # <<>>})
    BY SomePeople
  <2> PICK known : known = [i \in DOMAIN leads |-> Match("LEADTRACE_ENGINE", TRUE, FirstIsPrimary(leads[i]), 88)]
    OBVIOUS
  <2> PICK b \in Answer : b = Head(people)
    OBVIOUS
  <2> PICK c \in Nat : c = IF b.line = "mobile" THEN 45 ELSE 35
    OBVIOUS
  <2> PICK unnamed \in Answer : unnamed = [b EXCEPT !.name = FALSE]
    BY DEF Answer
  <2> PICK skeleton : skeleton = One("LEADTRACE_ENGINE", unnamed, c)
    OBVIOUS
  <2>1. known \in Seq(FoundMatch)
    <3>1. known \in [DOMAIN leads -> FoundMatch]
      <4> SUFFICES ASSUME NEW i \in DOMAIN leads
                   PROVE  Match("LEADTRACE_ENGINE", TRUE, FirstIsPrimary(leads[i]), 88) \in FoundMatch
        OBVIOUS
      <4>1. FirstIsPrimary(leads[i]) \in Seq(EnrichedPhone)
        BY PeopleAreAnswers, FirstIsPrimaryType
      <4>2. 88 \in Nat
        OBVIOUS
      <4> QED BY <1>0, <4>1, <4>2, MatchType
    <3> QED BY <3>1, EachType
  <2>2. skeleton \in Seq(FoundMatch)
    BY <1>0, OneType
  <2>3. known \o skeleton \in Seq(FoundMatch)
    BY <2>1, <2>2, ConcatProperties
  <2>4. EngineSearch(people, q) = known \/ EngineSearch(people, q) = known \o skeleton
    BY DEF EngineSearch, Each
  <2> QED BY <2>1, <2>3, <2>4
<1>2. MockSearch(people, q) \in Seq(FoundMatch)
  <2> PICK there \in Seq(Answer) :
        there = At(people, {i \in DOMAIN people : /\ Parsed(people[i]) # <<>>
                                                  /\ HasPhone(q) => Own \in ToSet(people[i].numbers)})
    BY SomePeople
  <2>1. MockSearch(people, q) \in [DOMAIN there -> FoundMatch]
    <3> SUFFICES ASSUME NEW i \in DOMAIN there
                 PROVE  Match("MOCK", TRUE, FirstIsPrimary(there[i]),
                              CASE q = "ZIP" -> 40 [] q = "NAME" -> 15
                                [] HasPhone(q) -> IF HasName(q) /\ there[i].name THEN 85 ELSE 70) \in FoundMatch
      BY DEF MockSearch, Each
    <3> PICK a \in Answer : a = there[i]
      BY PeopleAreAnswers
    <3> PICK c \in Nat : c = CASE q = "ZIP" -> 40 [] q = "NAME" -> 15
                                  [] HasPhone(q) -> IF HasName(q) /\ a.name THEN 85 ELSE 70
      BY DEF Queries, HasPhone, HasName
    <3>1. FirstIsPrimary(a) \in Seq(EnrichedPhone)
      BY FirstIsPrimaryType
    <3>2. Match("MOCK", TRUE, FirstIsPrimary(a), c) \in FoundMatch
      BY <1>0, <3>1, MatchType
    <3> QED BY <3>2
  <2> QED BY <2>1, EachType
<1> QED BY <1>1, <1>2

\* Whatever an adapter finds is matches.
LEMMA MatchesType ==
  ASSUME NEW code \in Adapters, NEW people \in Seq(Answer), NEW q \in Queries
  PROVE  Matches(code, people, q) \in Seq(FoundMatch)
<1>1. <<>> \in Seq(FoundMatch)
  OBVIOUS
<1>2. CASE people = <<>>
  <2>1. <<Phone(Own, "unknown", TRUE, TRUE)>> \in Seq(EnrichedPhone)
    BY OwnAlone, OwnLedPhones DEF LineTypes
  <2>2. FALSE \in BOOLEAN /\ 35 \in Nat
    OBVIOUS
  <2>3. Match(code, FALSE, <<Phone(Own, "unknown", TRUE, TRUE)>>, 35) \in FoundMatch
    BY <2>1, <2>2, MatchType
  <2>4. <<Match(code, FALSE, <<Phone(Own, "unknown", TRUE, TRUE)>>, 35)>> \in Seq(FoundMatch)
    BY <2>3, OneElement
  <2> QED BY <1>1, <1>2, <2>4 DEF Matches
<1>3. CASE people # <<>> /\ code \in {"LEADTRACE_ENGINE", "MOCK", "BATCHDATA", "NUMVERIFY"}
  BY <1>1, <1>3, OwnSearches, PeopleSearches DEF Matches
<1>4. CASE people # <<>> /\ code \in {"TWILIO", "MELISSA", "IPQS", "TRESTLE", "ENDATO", "SEARCHBUG"}
  BY <1>1, <1>4, NumberSearches, PeopleSearches DEF Matches, Adapters
<1> QED BY <1>2, <1>3, <1>4 DEF Adapters

-----------------------------------------------------------------------------
(* Merging matches                                                         *)

\* What the merge holds while it goes over the matches: those without a number apart.
Merged == [byPhone: Seq(FoundMatch), noPhone: Seq(ListedMatch)]

\* A list has a match of that number, at least that confident.
HasMatch(list, n, c) == \E i \in DOMAIN list : PrimaryOf(list[i]) = n /\ list[i].confidence >= c

\* The merge has something to show for a match.
Kept(m) ==
  {x \in Merged : IF PrimaryOf(m) = "none" THEN \E i \in DOMAIN x.noPhone : x.noPhone[i] = m
                  ELSE HasMatch(x.byPhone, PrimaryOf(m), m.confidence)}

\* A list of matches stands for a match.
StandsFor(x, m) ==
  /\ PrimaryOf(x) = PrimaryOf(m)
  /\ x.confidence >= AtMost(99, m.confidence)
  /\ PrimaryOf(m) = "none" => x.source = m.source

\* The first elements of s when those of a higher key come first: what is left out has no
\* higher key than any of them.
IsCut(cut, s, key, limit) ==
  /\ Len(cut) = limit /\ DOMAIN cut = 1..limit
  /\ \A k \in DOMAIN s :
       \/ \E j \in 1..limit : cut[j] = s[k]
       \/ limit < Len(s) /\ \A j \in 1..limit : \E i \in DOMAIN s : cut[j] = s[i] /\ key[i] >= key[k]

\* The most confident of some matches; some are left out only when the list is full.
IsTop(list, matches) ==
  \A k \in DOMAIN matches :
    \/ \E j \in DOMAIN list : list[j] = matches[k]
    \/ Len(list) = MaxShown /\ \A j \in DOMAIN list : list[j].confidence >= matches[k].confidence

\* The merge is FoldTheorems' fold.
LEMMA CollectingFold ==
  ASSUME NEW base, NEW s
  PROVE  Collecting!Folded(base, s) = FoldLeft(CollectMatch, base, s)
BY Zenon DEF Collecting!Folded, FoldLeft, MapThenFoldSet, Max, Collecting!FoldLeft,
   Collecting!MapThenFoldSet, Collecting!Max

\* Confidences and counts are natural numbers.
LEMMA ConfidenceType ==
  \A m \in FoundMatch : m.confidence \in Nat /\ m.verifiedBy \in Nat /\ m.verifiedBy >= 1
<1> SUFFICES ASSUME NEW m \in FoundMatch
             PROVE  m.confidence \in Nat /\ m.verifiedBy \in Nat /\ m.verifiedBy >= 1
  OBVIOUS
<1>1. m.confidence \in Nat /\ m.verifiedBy \in Nat \ {0}
  BY DEF FoundMatch
<1> QED BY <1>1

\* Another count leaves a match what it is otherwise.
LEMMA Recounted ==
  ASSUME NEW m \in FoundMatch, NEW v \in Nat \ {0}
  PROVE  /\ [m EXCEPT !.verifiedBy = v] \in FoundMatch
         /\ PrimaryOf([m EXCEPT !.verifiedBy = v]) = PrimaryOf(m)
         /\ [m EXCEPT !.verifiedBy = v].confidence = m.confidence
<1>1. [m EXCEPT !.verifiedBy = v] \in FoundMatch
  BY DEF FoundMatch
<1>2. [m EXCEPT !.verifiedBy = v].phones = m.phones /\ [m EXCEPT !.verifiedBy = v].confidence = m.confidence
  BY DEF FoundMatch
<1>3. \A x, y : x.phones = y.phones => PrimaryOf(x) = PrimaryOf(y)
  BY DEF PrimaryOf
<1> QED BY <1>1, <1>2, <1>3

\* So does another confidence.
LEMMA Rated ==
  ASSUME NEW m \in FoundMatch, NEW c \in Nat
  PROVE  /\ [m EXCEPT !.confidence = c] \in FoundMatch
         /\ PrimaryOf([m EXCEPT !.confidence = c]) = PrimaryOf(m)
         /\ [m EXCEPT !.confidence = c].confidence = c
<1>1. [m EXCEPT !.confidence = c] \in FoundMatch
  BY DEF FoundMatch
<1>2. [m EXCEPT !.confidence = c].phones = m.phones /\ [m EXCEPT !.confidence = c].confidence = c
  BY DEF FoundMatch
<1>3. \A x, y : x.phones = y.phones => PrimaryOf(x) = PrimaryOf(y)
  BY DEF PrimaryOf
<1> QED BY <1>1, <1>2, <1>3

\* A limit is monotone.
LEMMA AtMostGrows ==
  \A limit, n, c \in Nat :
    n >= c => /\ AtMost(limit, n) \in 0..limit /\ AtMost(limit, c) \in Nat
              /\ AtMost(limit, n) >= AtMost(limit, c) /\ c >= AtMost(limit, c)
BY DEF AtMost

\* A function on the first numbers is a list of that length.
LEMMA ListLength ==
  ASSUME NEW S, NEW n \in Nat, NEW f \in [1..n -> S]
  PROVE  f \in Seq(S) /\ Len(f) = n /\ DOMAIN f = 1..n
OBVIOUS

\* The more confident of two matches of a number is kept.
LEMMA KeepType ==
  ASSUME NEW cur \in FoundMatch, NEW m \in FoundMatch, PrimaryOf(cur) = PrimaryOf(m)
  PROVE  /\ Keep(cur, m) \in FoundMatch /\ PrimaryOf(Keep(cur, m)) = PrimaryOf(m)
         /\ Keep(cur, m).confidence >= cur.confidence /\ Keep(cur, m).confidence >= m.confidence
<1> PICK v \in Nat \ {0} : v = cur.verifiedBy + 1
  BY ConfidenceType
<1>0. cur.confidence \in Nat /\ m.confidence \in Nat
  BY ConfidenceType
<1>1. CASE m.confidence > cur.confidence
  <2>1. Keep(cur, m) = [m EXCEPT !.verifiedBy = v]
    BY <1>1 DEF Keep
  <2>2. Keep(cur, m) \in FoundMatch /\ PrimaryOf(Keep(cur, m)) = PrimaryOf(m) /\ Keep(cur, m).confidence = m.confidence
    BY <2>1, Recounted
  <2> QED BY <1>0, <1>1, <2>2
<1>2. CASE ~(m.confidence > cur.confidence)
  <2>1. Keep(cur, m) = [cur EXCEPT !.verifiedBy = v]
    BY <1>2 DEF Keep
  <2>2. Keep(cur, m) \in FoundMatch /\ PrimaryOf(Keep(cur, m)) = PrimaryOf(cur) /\ Keep(cur, m).confidence = cur.confidence
    BY <2>1, Recounted
  <2> QED BY <1>0, <1>2, <2>2
<1> QED BY <1>1, <1>2

\* Joining a match gives its number to the list, at no less confidence, and takes no
\* number away.
LEMMA JoinMatchType ==
  ASSUME NEW list \in Seq(FoundMatch), NEW m \in FoundMatch
  PROVE  /\ JoinMatch(list, m) \in Seq(FoundMatch)
         /\ HasMatch(JoinMatch(list, m), PrimaryOf(m), m.confidence)
         /\ \A n : \A c \in Nat : HasMatch(list, n, c) => HasMatch(JoinMatch(list, m), n, c)
<1>1. /\ Len(list) \in Nat /\ DOMAIN list = 1..Len(list)
      /\ \A i \in DOMAIN list : list[i] \in FoundMatch
  BY ListDomain
<1>2. m.confidence \in Nat /\ \A i \in DOMAIN list : list[i].confidence \in Nat
  BY <1>1, ConfidenceType
<1>3. CASE \A i \in DOMAIN list : PrimaryOf(list[i]) # PrimaryOf(m)
  <2>1. JoinMatch(list, m) = Append(list, m)
    BY <1>3 DEF JoinMatch
  <2>2. /\ Append(list, m) \in Seq(FoundMatch)
        /\ DOMAIN Append(list, m) = 1..(Len(list) + 1)
        /\ \A i \in 1..Len(list) : Append(list, m)[i] = list[i]
        /\ Append(list, m)[Len(list) + 1] = m
    BY <1>1, AppendProperties
  <2>3. DOMAIN list \subseteq DOMAIN Append(list, m) /\ Len(list) + 1 \in DOMAIN Append(list, m)
    BY <1>1, <2>2
  <2>4. HasMatch(Append(list, m), PrimaryOf(m), m.confidence)
    BY <1>2, <2>2, <2>3 DEF HasMatch
  <2>5. \A n : \A c \in Nat : HasMatch(list, n, c) => HasMatch(Append(list, m), n, c)
    BY <1>1, <2>2, <2>3 DEF HasMatch
  <2> QED BY <2>1, <2>2, <2>4, <2>5
<1>4. CASE ~\A i \in DOMAIN list : PrimaryOf(list[i]) # PrimaryOf(m)
  <2> PICK out : out = [i \in DOMAIN list |->
                          IF PrimaryOf(list[i]) = PrimaryOf(m) THEN Keep(list[i], m) ELSE list[i]]
    OBVIOUS
  <2>1. JoinMatch(list, m) = out
    BY <1>4 DEF JoinMatch
  <2>2. \A i \in DOMAIN list :
          /\ out[i] \in FoundMatch /\ PrimaryOf(out[i]) = PrimaryOf(list[i])
          /\ out[i].confidence \in Nat /\ out[i].confidence >= list[i].confidence
          /\ PrimaryOf(list[i]) = PrimaryOf(m) => out[i].confidence >= m.confidence
    <3> SUFFICES ASSUME NEW i \in DOMAIN list
                 PROVE  /\ out[i] \in FoundMatch /\ PrimaryOf(out[i]) = PrimaryOf(list[i])
                        /\ out[i].confidence \in Nat /\ out[i].confidence >= list[i].confidence
                        /\ PrimaryOf(list[i]) = PrimaryOf(m) => out[i].confidence >= m.confidence
      OBVIOUS
    <3>1. CASE PrimaryOf(list[i]) = PrimaryOf(m)
      BY <1>1, <3>1, KeepType, ConfidenceType
    <3>2. CASE PrimaryOf(list[i]) # PrimaryOf(m)
      BY <1>1, <1>2, <3>2
    <3> QED BY <3>1, <3>2
  <2>3. out \in [1..Len(list) -> FoundMatch] /\ DOMAIN out = DOMAIN list
    BY <1>1, <2>2
  <2>4. out \in Seq(FoundMatch)
    BY <1>1, <2>3, ListOf
  <2>5. HasMatch(out, PrimaryOf(m), m.confidence)
    BY <1>4, <2>2, <2>3 DEF HasMatch
  <2>6. \A n : \A c \in Nat : HasMatch(list, n, c) => HasMatch(out, n, c)
    <3> SUFFICES ASSUME NEW n, NEW c \in Nat, NEW i \in DOMAIN list, PrimaryOf(list[i]) = n, list[i].confidence >= c
                 PROVE  HasMatch(out, n, c)
      BY DEF HasMatch
    <3>1. PrimaryOf(out[i]) = n /\ out[i].confidence >= c
      BY <1>2, <2>2
    <3> QED BY <2>3, <3>1 DEF HasMatch
  <2> QED BY <2>1, <2>4, <2>5, <2>6
<1> QED BY <1>3, <1>4

\* Collecting a match keeps it, and whatever was kept.
LEMMA CollectKeeps ==
  ASSUME NEW x \in Merged, NEW y \in FoundMatch
  PROVE  /\ CollectMatch(x, y) \in Kept(y)
         /\ \A m \in FoundMatch : x \in Kept(m) => CollectMatch(x, y) \in Kept(m)
<1>1. x = [byPhone |-> x.byPhone, noPhone |-> x.noPhone] /\ x.byPhone \in Seq(FoundMatch) /\ x.noPhone \in Seq(ListedMatch)
  BY DEF Merged
<1>2. \A b \in Seq(FoundMatch), n \in Seq(ListedMatch) : [byPhone |-> b, noPhone |-> n] \in Merged
  BY DEF Merged
<1>3. CASE PrimaryOf(y) = "none"
  <2>0. y \in ListedMatch
    BY <1>3 DEF ListedMatch
  <2> PICK list : list = Append(x.noPhone, y)
    OBVIOUS
  <2>1. CollectMatch(x, y) = [byPhone |-> x.byPhone, noPhone |-> list]
    BY <1>1, <1>3 DEF CollectMatch
  <2>2. /\ list \in Seq(ListedMatch)
        /\ DOMAIN list = 1..(Len(x.noPhone) + 1)
        /\ \A i \in 1..Len(x.noPhone) : list[i] = x.noPhone[i]
        /\ list[Len(x.noPhone) + 1] = y
    BY <1>1, <2>0, AppendProperties
  <2>3. /\ Len(x.noPhone) + 1 \in DOMAIN list /\ DOMAIN x.noPhone \subseteq DOMAIN list
        /\ \A i \in DOMAIN x.noPhone : list[i] = x.noPhone[i]
    BY <1>1, <2>2, LenProperties
  <2>4. CollectMatch(x, y) \in Merged
    BY <1>1, <1>2, <2>1, <2>2
  <2>5. CollectMatch(x, y).noPhone = list /\ CollectMatch(x, y).byPhone = x.byPhone
    BY <2>1
  <2>6. CollectMatch(x, y) \in Kept(y)
    BY <1>3, <2>2, <2>3, <2>4, <2>5 DEF Kept
  <2>7. \A m \in FoundMatch : x \in Kept(m) => CollectMatch(x, y) \in Kept(m)
    BY <2>3, <2>4, <2>5 DEF Kept
  <2> QED BY <2>6, <2>7
<1>4. CASE PrimaryOf(y) # "none"
  <2> PICK list : list = JoinMatch(x.byPhone, y)
    OBVIOUS
  <2>1. CollectMatch(x, y) = [byPhone |-> list, noPhone |-> x.noPhone]
    BY <1>1, <1>4 DEF CollectMatch
  <2>2. /\ list \in Seq(FoundMatch) /\ HasMatch(list, PrimaryOf(y), y.confidence)
        /\ \A n : \A c \in Nat : HasMatch(x.byPhone, n, c) => HasMatch(list, n, c)
    BY <1>1, JoinMatchType
  <2>3. CollectMatch(x, y) \in Merged
    BY <1>1, <1>2, <2>1, <2>2
  <2>4. CollectMatch(x, y).byPhone = list /\ CollectMatch(x, y).noPhone = x.noPhone
    BY <2>1
  <2>5. CollectMatch(x, y) \in Kept(y)
    BY <1>4, <2>2, <2>3, <2>4 DEF Kept
  <2>6. ASSUME NEW m \in FoundMatch, x \in Kept(m) PROVE CollectMatch(x, y) \in Kept(m)
    <3>1. m.confidence \in Nat
      BY ConfidenceType
    <3> QED BY <2>2, <2>3, <2>4, <2>6, <3>1 DEF Kept
  <2> QED BY <2>5, <2>6
<1> QED BY <1>3, <1>4

\* So the merge has something to show for every match.
LEMMA AllAreKept ==
  ASSUME NEW all \in Seq(FoundMatch)
  PROVE  LET merged == FoldLeft(CollectMatch, [byPhone |-> <<>>, noPhone |-> <<>>], all)
         IN  merged \in Merged /\ \A i \in DOMAIN all : merged \in Kept(all[i])
<1> PICK base : base = [byPhone |-> <<>>, noPhone |-> <<>>]
  OBVIOUS
<1>1. base \in Merged
  <2>1. <<>> \in Seq(FoundMatch) /\ <<>> \in Seq(ListedMatch)
    OBVIOUS
  <2> QED BY <2>1 DEF Merged
<1>2. \A m : Kept(m) \subseteq Merged
  BY DEF Kept
<1>3. Collecting!Closed(Merged, FoundMatch)
  BY <1>2, CollectKeeps DEF Collecting!Closed
<1>4. Collecting!Folded(base, all) \in Merged
  BY <1>1, <1>3, Collecting!FoldType
<1>5. ASSUME NEW i \in DOMAIN all PROVE Collecting!Folded(base, all) \in Kept(all[i])
  <2>1. i \in 1..Len(all) /\ all[i] \in FoundMatch
    BY ListDomain
  <2>2. Collecting!Closed(Kept(all[i]), FoundMatch)
    BY <1>2, <2>1, CollectKeeps DEF Collecting!Closed
  <2>3. \A x \in Merged : CollectMatch(x, all[i]) \in Kept(all[i])
    BY <2>1, CollectKeeps
  <2> QED BY <1>1, <1>3, <2>1, <2>2, <2>3, Collecting!FoldReaches
<1> QED BY <1>4, <1>5, CollectingFold

\* Agreement adds to a match's confidence; only what was beyond 99 is less.
LEMMA BoostedType ==
  ASSUME NEW m \in FoundMatch
  PROVE  /\ Boosted(m) \in ListedMatch /\ PrimaryOf(Boosted(m)) = PrimaryOf(m)
         /\ Boosted(m).confidence >= AtMost(99, m.confidence)
<1> PICK n \in Nat : n = m.confidence + 8 * (m.verifiedBy - 1) /\ n >= m.confidence
  BY ConfidenceType
<1>1. m.confidence \in Nat /\ 99 \in Nat
  BY ConfidenceType
<1> PICK c \in Nat : c = AtMost(99, n) /\ c <= 99 /\ c >= AtMost(99, m.confidence)
  <2>1. AtMost(99, n) \in 0..99 /\ AtMost(99, n) >= AtMost(99, m.confidence)
    BY <1>1, AtMostGrows
  <2> QED BY <2>1
<1>2. Boosted(m) = [m EXCEPT !.confidence = c]
  BY DEF Boosted
<1>3. /\ [m EXCEPT !.confidence = c] \in FoundMatch
      /\ PrimaryOf([m EXCEPT !.confidence = c]) = PrimaryOf(m)
      /\ [m EXCEPT !.confidence = c].confidence = c
  BY Rated
<1> QED BY <1>2, <1>3 DEF ListedMatch

\* So it does all along a list.
LEMMA BoostedList ==
  ASSUME NEW list \in Seq(FoundMatch)
  PROVE  /\ [i \in DOMAIN list |-> Boosted(list[i])] \in Seq(ListedMatch)
         /\ Len([i \in DOMAIN list |-> Boosted(list[i])]) = Len(list)
<1>1. Len(list) \in Nat /\ DOMAIN list = 1..Len(list) /\ \A i \in DOMAIN list : list[i] \in FoundMatch
  BY ListDomain
<1>2. [i \in 1..Len(list) |-> Boosted(list[i])] \in [1..Len(list) -> ListedMatch]
  BY <1>1, BoostedType
<1> QED BY <1>1, <1>2, ListLength

\* Before it is cut, the merged list has one standing for every match collected.
LEMMA AllAreListed ==
  ASSUME NEW all \in Seq(FoundMatch), NEW merged,
         merged = FoldLeft(CollectMatch, [byPhone |-> <<>>, noPhone |-> <<>>], all),
         NEW matches,
         matches = [i \in DOMAIN merged.byPhone |-> Boosted(merged.byPhone[i])] \o merged.noPhone
  PROVE  /\ matches \in Seq(ListedMatch)
         /\ \A i \in DOMAIN all : \E k \in DOMAIN matches : StandsFor(matches[k], all[i])
<1> PICK boosted : boosted = [i \in DOMAIN merged.byPhone |-> Boosted(merged.byPhone[i])]
  OBVIOUS
<1>1. merged \in Merged /\ \A i \in DOMAIN all : merged \in Kept(all[i])
  BY AllAreKept
<1>2. merged.byPhone \in Seq(FoundMatch) /\ merged.noPhone \in Seq(ListedMatch)
  BY <1>1 DEF Merged
<1>3. /\ Len(merged.byPhone) \in Nat /\ DOMAIN merged.byPhone = 1..Len(merged.byPhone)
      /\ Len(merged.noPhone) \in Nat /\ DOMAIN merged.noPhone = 1..Len(merged.noPhone)
      /\ \A i \in DOMAIN merged.byPhone : merged.byPhone[i] \in FoundMatch
      /\ \A i \in DOMAIN merged.noPhone : merged.noPhone[i] \in ListedMatch
  BY <1>2, ListDomain
<1>4. boosted \in Seq(ListedMatch) /\ Len(boosted) = Len(merged.byPhone)
  BY <1>2, BoostedList
<1>5. /\ matches = boosted \o merged.noPhone /\ matches \in Seq(ListedMatch)
      /\ DOMAIN matches = 1..(Len(boosted) + Len(merged.noPhone))
      /\ \A i \in 1..Len(boosted) : matches[i] = boosted[i]
      /\ \A i \in 1..Len(merged.noPhone) : matches[Len(boosted) + i] = merged.noPhone[i]
  BY <1>2, <1>3, <1>4, ConcatProperties
<1>6. ASSUME NEW i \in DOMAIN all PROVE \E k \in DOMAIN matches : StandsFor(matches[k], all[i])
  <2> PICK m \in FoundMatch : m = all[i]
    BY ListDomain
  <2>0. m.confidence \in Nat
    BY ConfidenceType
  <2>1. CASE PrimaryOf(m) = "none"
    <3>1. PICK j \in DOMAIN merged.noPhone : merged.noPhone[j] = m
      BY <1>1, <2>1 DEF Kept
    <3>2. Len(boosted) + j \in DOMAIN matches /\ matches[Len(boosted) + j] = m
      BY <1>3, <1>4, <1>5, <3>1
    <3>3. StandsFor(m, m)
      BY <2>0 DEF StandsFor, AtMost
    <3> QED BY <3>2, <3>3
  <2>2. CASE PrimaryOf(m) # "none"
    <3>1. PICK j \in DOMAIN merged.byPhone :
            PrimaryOf(merged.byPhone[j]) = PrimaryOf(m) /\ merged.byPhone[j].confidence >= m.confidence
      BY <1>1, <2>2 DEF Kept, HasMatch
    <3> PICK kept \in FoundMatch : kept = merged.byPhone[j]
      BY <1>3
    <3>2. kept.confidence \in Nat
      BY ConfidenceType
    <3>3. PrimaryOf(Boosted(kept)) = PrimaryOf(m) /\ Boosted(kept).confidence >= AtMost(99, kept.confidence)
      BY <3>1, BoostedType
    <3>4. Boosted(kept).confidence \in Nat
      BY BoostedType, ConfidenceType DEF ListedMatch
    <3>5. AtMost(99, kept.confidence) >= AtMost(99, m.confidence)
      BY <2>0, <3>1, <3>2 DEF AtMost
    <3>6. AtMost(99, kept.confidence) \in Nat /\ AtMost(99, m.confidence) \in Nat
      BY <2>0, <3>2 DEF AtMost
    <3>7. Boosted(kept).confidence >= AtMost(99, m.confidence)
      BY <3>3, <3>4, <3>5, <3>6
    <3>8. StandsFor(Boosted(kept), m)
      BY <2>2, <3>3, <3>7 DEF StandsFor
    <3>9. j \in DOMAIN matches /\ matches[j] = Boosted(kept)
      BY <1>3, <1>4, <1>5
    <3> QED BY <3>8, <3>9
  <2> QED BY <2>1, <2>2
<1> QED BY <1>5, <1>6

\* A sorted list is cut after its first elements: what is left out has no higher key than
\* any of those, and something is left out only when the list is full.
LEMMA CutList ==
  ASSUME NEW S, NEW s \in Seq(S), NEW key \in [DOMAIN s -> Nat], NEW limit \in Nat, limit <= Len(s)
  PROVE  /\ SubSeq(StableSort(s, key), 1, limit) \in Seq(S)
         /\ IsCut(SubSeq(StableSort(s, key), 1, limit), s, key, limit)
<1> PICK sorted : sorted = StableSort(s, key)
  OBVIOUS
<1> PICK cut : cut = SubSeq(sorted, 1, limit)
  OBVIOUS
<1>1. PICK p \in [DOMAIN s -> DOMAIN s] :
           /\ sorted = [k \in DOMAIN s |-> s[p[k]]]
           /\ \A i \in DOMAIN s : \E k \in DOMAIN s : p[k] = i
           /\ \A j, k \in DOMAIN s : j < k => key[p[j]] >= key[p[k]]
  BY SortElements
<1>2. Len(s) \in Nat /\ DOMAIN s = 1..Len(s) /\ \A i \in DOMAIN s : s[i] \in S
  BY ListDomain
<1>3. sorted \in Seq(S) /\ Len(sorted) = Len(s)
  BY SortKeeps
<1>4. \A i \in 1..limit : i \in DOMAIN s /\ p[i] \in DOMAIN s
  <2>1. \A i \in 1..limit : i \in 1..Len(s)
    BY <1>2
  <2> QED BY <1>2, <2>1
<1>5. cut = [i \in 1..limit |-> sorted[i]]
  <2>1. /\ SubSeq(sorted, 1, limit) \in Seq(S)
        /\ Len(SubSeq(sorted, 1, limit)) = IF 1 <= limit THEN limit - 1 + 1 ELSE 0
        /\ \A i \in 1..(limit - 1 + 1) : SubSeq(sorted, 1, limit)[i] = sorted[1 + i - 1]
    BY <1>2, <1>3, SubSeqProperties
  <2>2. Len(cut) = limit /\ cut \in Seq(S) /\ \A i \in 1..limit : cut[i] = sorted[i]
    BY <2>1
  <2>3. cut = [i \in 1..Len(cut) |-> cut[i]]
    BY <2>2, LenProperties
  <2> QED BY <2>2, <2>3
<1>6. \A i \in 1..limit : cut[i] = s[p[i]]
  BY <1>1, <1>4, <1>5
<1>7. cut \in [1..limit -> S]
  BY <1>2, <1>4, <1>5, <1>6
<1>8. cut \in Seq(S) /\ Len(cut) = limit /\ DOMAIN cut = 1..limit
  BY <1>7, ListLength
<1>9. ASSUME NEW k \in DOMAIN s
      PROVE  \/ \E j \in 1..limit : cut[j] = s[k]
             \/ limit < Len(s) /\ \A j \in 1..limit : \E i \in DOMAIN s : cut[j] = s[i] /\ key[i] >= key[k]
  <2>1. PICK at \in DOMAIN s : p[at] = k
    BY <1>1
  <2>2. CASE at \in 1..limit
    BY <1>6, <2>1, <2>2
  <2>3. CASE at \notin 1..limit
    <3>1. limit < at /\ limit < Len(s)
      BY <1>2, <2>3
    <3>2. \A j \in 1..limit : j \in DOMAIN s /\ j < at
      BY <1>2, <3>1
    <3>3. \A j \in 1..limit : p[j] \in DOMAIN s /\ cut[j] = s[p[j]] /\ key[p[j]] >= key[k]
      BY <1>1, <1>4, <1>6, <2>1, <3>2
    <3> QED BY <3>1, <3>3
  <2> QED BY <2>2, <2>3
<1>10. IsCut(cut, s, key, limit)
  BY <1>8, <1>9 DEF IsCut
<1> QED BY <1>8, <1>10

\* So what is shown of a list of matches is the most confident of them.
LEMMA MostConfident ==
  ASSUME NEW matches \in Seq(ListedMatch), NEW key \in [DOMAIN matches -> Nat],
         \A k \in DOMAIN matches : key[k] = matches[k].confidence,
         NEW list, list = SubSeq(StableSort(matches, key), 1, AtMost(MaxShown, Len(StableSort(matches, key))))
  PROVE  list \in Seq(ListedMatch) /\ IsTop(list, matches)
<1>1. Len(matches) \in Nat /\ Len(StableSort(matches, key)) = Len(matches)
  BY ListDomain, SortKeeps
<1> PICK limit \in Nat : /\ limit = AtMost(MaxShown, Len(matches)) /\ limit <= Len(matches)
                         /\ limit < Len(matches) => limit = MaxShown
  <2>1. MaxShown \in Nat
    BY InputsAssumption
  <2>2. \A n \in Nat : /\ AtMost(MaxShown, n) \in Nat /\ AtMost(MaxShown, n) <= n
                       /\ AtMost(MaxShown, n) < n => AtMost(MaxShown, n) = MaxShown
    BY <2>1 DEF AtMost
  <2> QED BY <1>1, <2>2
<1>2. list = SubSeq(StableSort(matches, key), 1, limit)
  BY <1>1
<1>3. list \in Seq(ListedMatch) /\ IsCut(list, matches, key, limit)
  <2>1. /\ SubSeq(StableSort(matches, key), 1, limit) \in Seq(ListedMatch)
        /\ IsCut(SubSeq(StableSort(matches, key), 1, limit), matches, key, limit)
    BY CutList
  <2> QED BY <1>2, <2>1, Zenon
<1>4. ASSUME NEW k \in DOMAIN matches
      PROVE  \/ \E j \in DOMAIN list : list[j] = matches[k]
             \/ Len(list) = MaxShown /\ \A j \in DOMAIN list : list[j].confidence >= matches[k].confidence
  <2>0. Len(list) = limit /\ DOMAIN list = 1..limit
    BY <1>3 DEF IsCut
  <2>1. CASE \E j \in 1..limit : list[j] = matches[k]
    BY <2>0, <2>1
  <2>2. CASE limit < Len(matches) /\ \A j \in 1..limit : \E i \in DOMAIN matches : list[j] = matches[i] /\ key[i] >= key[k]
    <3>1. Len(list) = MaxShown
      BY <2>0, <2>2
    <3>2. ASSUME NEW j \in 1..limit PROVE list[j].confidence >= matches[k].confidence
      <4>1. PICK i \in DOMAIN matches : list[j] = matches[i] /\ key[i] >= key[k]
        BY <2>2
      <4> QED BY <4>1
    <3> QED BY <2>0, <3>1, <3>2
  <2> QED BY <1>3, <2>1, <2>2 DEF IsCut
<1> QED BY <1>3, <1>4 DEF IsTop

\* What a search shows loses no match but for the cut.
LEMMA ShownMatches ==
  ASSUME NEW all \in Seq(FoundMatch)
  PROVE  /\ mergeMatches(all) \in Seq(ListedMatch)
         /\ \A i \in DOMAIN all :
              \/ \E j \in DOMAIN mergeMatches(all) : StandsFor(mergeMatches(all)[j], all[i])
              \/ /\ Len(mergeMatches(all)) = MaxShown
                 /\ \A j \in DOMAIN mergeMatches(all) :
                      mergeMatches(all)[j].confidence >= AtMost(99, all[i].confidence)
<1> PICK merged : merged = FoldLeft(CollectMatch, [byPhone |-> <<>>, noPhone |-> <<>>], all)
  OBVIOUS
<1> PICK matches : matches = [i \in DOMAIN merged.byPhone |-> Boosted(merged.byPhone[i])] \o merged.noPhone
  OBVIOUS
<1> PICK key : key = [i \in DOMAIN matches |-> matches[i].confidence]
  OBVIOUS
<1> PICK list : list = mergeMatches(all)
  OBVIOUS
<1>1. list = SubSeq(StableSort(matches, key), 1, AtMost(MaxShown, Len(StableSort(matches, key))))
  BY DEF mergeMatches
<1>2. matches \in Seq(ListedMatch)
  BY AllAreListed
<1>3. \A i \in DOMAIN all : \E k \in DOMAIN matches : StandsFor(matches[k], all[i])
  BY AllAreListed
<1>4. \A k \in DOMAIN matches : matches[k] \in FoundMatch /\ matches[k].confidence \in Nat
  BY <1>2, ListDomain, ConfidenceType DEF ListedMatch
<1>5. key \in [DOMAIN matches -> Nat] /\ \A k \in DOMAIN matches : key[k] = matches[k].confidence
  BY <1>4
<1>6. list \in Seq(ListedMatch) /\ IsTop(list, matches)
  BY <1>1, <1>2, <1>5, MostConfident
<1>7. \A j \in DOMAIN list : list[j].confidence \in Nat
  BY <1>6, ListDomain, ConfidenceType DEF ListedMatch
<1>8. ASSUME NEW i \in DOMAIN all
      PROVE  \/ \E j \in DOMAIN list : StandsFor(list[j], all[i])
             \/ /\ Len(list) = MaxShown
                /\ \A j \in DOMAIN list : list[j].confidence >= AtMost(99, all[i].confidence)
  <2>1. AtMost(99, all[i].confidence) \in Nat
    <3>1. \A n \in Nat : AtMost(99, n) \in Nat
      BY DEF AtMost
    <3>2. all[i].confidence \in Nat
      BY ListDomain, ConfidenceType
    <3> QED BY <3>1, <3>2
  <2>2. PICK k \in DOMAIN matches : StandsFor(matches[k], all[i])
    BY <1>3
  <2>3. CASE \E j \in DOMAIN list : list[j] = matches[k]
    BY <2>2, <2>3
  <2>4. CASE Len(list) = MaxShown /\ \A j \in DOMAIN list : list[j].confidence >= matches[k].confidence
    <3> PICK c \in Nat : c = AtMost(99, all[i].confidence)
      BY <2>1
    <3> PICK n \in Nat : n = matches[k].confidence
      BY <1>4
    <3>1. n >= c
      BY <2>2 DEF StandsFor
    <3>2. ASSUME NEW j \in DOMAIN list PROVE list[j].confidence >= c
      <4> PICK l \in Nat : l = list[j].confidence
        BY <1>7
      <4>1. l >= n
        BY <2>4
      <4> QED BY <3>1, <4>1
    <3> QED BY <2>4, <3>2
  <2> QED BY <1>6, <2>3, <2>4 DEF IsTop
<1> QED BY <1>6, <1>8

-----------------------------------------------------------------------------
(* Arithmetic                                                              *)

\* Rounding a natural number of parts gives a natural number.
LEMMA RoundType ==
  \A num \in Nat : /\ Round(num, 8) \in Nat /\ Round(num, 100) \in Nat /\ Round(num, 2) \in Nat
BY DEF Round

\* Itemize adds the same points to the score and to the items, once for each key.
LEMMA ItemizeBalances ==
  ASSUME NEW tally, Balanced(tally), NEW key \in ItemKeys, Open(tally, key), NEW points \in Int
  PROVE  /\ Balanced(Itemize(tally, key, points))
         /\ Itemize(tally, key, points).score = tally.score + points
         /\ \A other \in ItemKeys : other # key =>
              (Open(Itemize(tally, key, points), other) <=> Open(tally, other))
<1> PICK items : items = [tally.items EXCEPT ![key] = points]
  OBVIOUS
<1>1. /\ items \in [ItemKeys -> Int] /\ items[key] = points
      /\ \A other \in ItemKeys : other # key => items[other] = tally.items[other]
  BY DEF Balanced
<1>2. ItemSum(items) = ItemSum(tally.items) + points
  BY <1>1 DEF ItemSum, ItemKeys, Keys, Balanced, Open
<1>3. Itemize(tally, key, points) = [score |-> tally.score + points, items |-> items]
  BY DEF Itemize
<1> QED BY <1>1, <1>2, <1>3 DEF Balanced, Open

\* So does a rule, whether it holds or not.
LEMMA EarnBalances ==
  ASSUME NEW tally, Balanced(tally), tally.score >= 0,
         NEW key \in ItemKeys \cap Keys, Open(tally, key), NEW holds,
         NEW w \in [Keys -> Nat]
  PROVE  /\ Balanced(Earn(tally, holds, key, w)) /\ Earn(tally, holds, key, w).score >= 0
         /\ \A other \in ItemKeys : other # key =>
              (Open(Earn(tally, holds, key, w), other) <=> Open(tally, other))
<1>1. w[key] \in Nat /\ w[key] \in Int
  OBVIOUS
<1>2. CASE ~holds
  BY <1>2 DEF Earn
<1>3. CASE holds
  <2>1. Earn(tally, holds, key, w) = Itemize(tally, key, w[key])
    BY <1>3 DEF Earn
  <2>2. tally.score + w[key] >= 0
    BY <1>1 DEF Balanced
  <2> QED BY <1>1, <2>1, <2>2, ItemizeBalances
<1> QED BY <1>2, <1>3

\* How complete a dossier is, is a natural number of hundredths.
LEMMA CompletenessType ==
  ASSUME NEW p, p.has \subseteq Parts, NEW g
  PROVE  Completeness(p, g) \in Nat
<1> PICK present : present = When(p.phones # <<>>, {"phone"}) \cup p.has
                   \cup When(p.ownership # Unknown, {"property"})
                   \cup When(g.timezone, {"timezone"}) \cup {"compliance"}
  OBVIOUS
<1>1. present \subseteq {"phone"} \cup {"emails"} \cup {"addresses"} \cup {"ageRange"}
                        \cup {"relatives"} \cup {"property"} \cup {"timezone"} \cup {"compliance"}
  BY DEF When, Parts
<1>2. IsFiniteSet({"phone"} \cup {"emails"} \cup {"addresses"} \cup {"ageRange"}
                  \cup {"relatives"} \cup {"property"} \cup {"timezone"} \cup {"compliance"})
  <2>1. \A S, x : IsFiniteSet(S) => IsFiniteSet(S \cup {x})
    BY FS_AddElement
  <2>2. IsFiniteSet({"phone"} \cup {"emails"} \cup {"addresses"} \cup {"ageRange"})
    BY <2>1, FS_Singleton, Zenon
  <2>3. IsFiniteSet({"phone"} \cup {"emails"} \cup {"addresses"} \cup {"ageRange"}
                    \cup {"relatives"} \cup {"property"})
    BY <2>1, <2>2, Zenon
  <2> QED BY <2>1, <2>3, Zenon
<1>3. Cardinality(present) \in Nat
  BY <1>1, <1>2, FS_Subset, FS_CardinalityType
<1>4. Completeness(p, g) = Round(100 * Cardinality(present), 8)
  BY DEF Completeness
<1> QED BY <1>3, <1>4, RoundType

-----------------------------------------------------------------------------
(* The score                                                               *)

\* The tally is balanced and never negative, and a lead that may not be called ends at
\* the cap or below, itemised.
LEMMA TallyBalances ==
  ASSUME NEW p, p.has \subseteq Parts, NEW g, NEW ok, NEW w \in [Keys -> Nat]
  PROVE  Balanced(Tally(p, g, ok, w)) /\ Tally(p, g, ok, w).score >= 0
<1> DEFINE phone     == ScoredPhone(p.phones)
           start     == [score |-> 0, items |-> NoItems]
           isMobile  == phone # <<>> /\ phone[1].active /\ phone[1].lineType = "mobile"
           mobile    == Earn(start, isMobile, "phone_active_mobile", w)
           email     == Earn(mobile, "emails" \in p.has, "has_valid_email", w)
           owner     == Earn(email, p.ownership = "own", "property_owner", w)
           validated == Earn(owner, g.addressValid, "address_validated", w)
           cleared   == Earn(validated, ok, "callable", w)
           points    == Round(w.data_completeness_max * Completeness(p, g), 100)
           complete  == Itemize(cleared, "data_completeness", points)
           cap       == w.not_callable_score_cap
<1>1. Balanced(start) /\ start.score >= 0 /\ \A key \in ItemKeys : Open(start, key)
  BY DEF Balanced, NoItems, ItemSum, Open, ItemKeys, Keys
<1>k. /\ "phone_active_mobile" \in ItemKeys \cap Keys /\ "has_valid_email" \in ItemKeys \cap Keys
      /\ "property_owner" \in ItemKeys \cap Keys /\ "address_validated" \in ItemKeys \cap Keys
      /\ "callable" \in ItemKeys \cap Keys
      /\ "data_completeness" \in ItemKeys /\ "not_callable_cap" \in ItemKeys
      /\ "data_completeness_max" \in Keys /\ "not_callable_score_cap" \in Keys
  BY DEF ItemKeys, Keys
<1> HIDE DEF start, isMobile
<1>2. /\ Balanced(mobile) /\ mobile.score >= 0
      /\ \A key \in ItemKeys \ {"phone_active_mobile"} : Open(mobile, key)
  BY <1>1, <1>k, EarnBalances
<1> HIDE DEF mobile
<1>3. /\ Balanced(email) /\ email.score >= 0
      /\ \A key \in ItemKeys \ {"phone_active_mobile", "has_valid_email"} : Open(email, key)
  BY <1>2, <1>k, EarnBalances
<1> HIDE DEF email
<1>4. /\ Balanced(owner) /\ owner.score >= 0
      /\ \A key \in ItemKeys \ {"phone_active_mobile", "has_valid_email", "property_owner"} :
           Open(owner, key)
  BY <1>3, <1>k, EarnBalances
<1> HIDE DEF owner
<1>5. /\ Balanced(validated) /\ validated.score >= 0
      /\ \A key \in {"callable", "data_completeness", "not_callable_cap"} : Open(validated, key)
  BY <1>4, <1>k, EarnBalances
<1> HIDE DEF validated
<1>6. /\ Balanced(cleared) /\ cleared.score >= 0
      /\ \A key \in {"data_completeness", "not_callable_cap"} : Open(cleared, key)
  BY <1>5, <1>k, EarnBalances
<1> HIDE DEF cleared
<1>7. points \in Nat
  <2>1. Completeness(p, g) \in Nat /\ w.data_completeness_max \in Nat
    BY <1>k, CompletenessType
  <2>2. w.data_completeness_max * Completeness(p, g) \in Nat
    BY <2>1
  <2> QED BY <2>2, RoundType
<1> HIDE DEF points
<1>8. Balanced(complete) /\ complete.score >= 0 /\ Open(complete, "not_callable_cap")
  <2>1. points \in Int /\ cleared.score + points >= 0
    BY <1>6, <1>7 DEF Balanced
  <2> QED BY <1>6, <1>k, <2>1, ItemizeBalances
<1> HIDE DEF complete
<1>9. cap \in Nat
  BY <1>k
<1> HIDE DEF cap
<1>10. Balanced(Capped(complete, ok, cap)) /\ Capped(complete, ok, cap).score >= 0
  <2>1. CASE ~ok /\ complete.score > cap
    <3>1. Capped(complete, ok, cap) = Itemize(complete, "not_callable_cap", cap - complete.score)
      BY <2>1 DEF Capped
    <3>2. /\ cap - complete.score \in Int
          /\ complete.score + (cap - complete.score) = cap
      BY <1>8, <1>9 DEF Balanced
    <3> QED BY <1>8, <1>9, <1>k, <3>1, <3>2, ItemizeBalances
  <2>2. CASE ~(~ok /\ complete.score > cap)
    BY <1>8, <2>2 DEF Capped
  <2> QED BY <2>1, <2>2
<1>11. Tally(p, g, ok, w) = Capped(complete, ok, cap)
  BY DEF Tally, complete, points, cleared, validated, owner, email, mobile, isMobile, start, cap
<1> QED BY <1>10, <1>11

-----------------------------------------------------------------------------
(* Every step                                                              *)

\* Every step of the sections hands on what the score needs.
LEMMA InputsStep ==
  ASSUME InputsOK, Next
  PROVE  InputsOK'
<1>0. IsPerson(NoPerson)
  BY NobodyIsPerson
<1>1. CASE updateWeight
  <2>1. PICK edit \in WeightEdits : weights' = [weights EXCEPT ![edit[1]] = edit[2]]
    BY <1>1 DEF updateWeight
  <2>2. edit[1] \in Keys /\ edit[2] \in Nat
    BY InputsAssumption
  <2>3. weights' \in [Keys -> Nat]
    BY <2>1, <2>2 DEF InputsOK
  <2> QED BY <1>1, <2>3 DEF updateWeight, InputsOK
<1>2. CASE enrich
  <2>1. active' \subseteq Adapters
    BY <1>2, InputsAssumption DEF enrich
  <2> QED BY <1>2, <2>1 DEF enrich, InputsOK
<1>3. CASE enrichViaProvider
  <2>1. PICK code \in todo :
          /\ todo' = todo \ {code}
          /\ \/ \E a \in Answers :
                  answered' = Append(answered, [code |-> code, data |-> enrichPerson(code, a)])
             \/ UNCHANGED answered
    BY <1>3 DEF enrichViaProvider
  <2>2. \A a \in Answers : [code |-> code, data |-> enrichPerson(code, a)] \in Enrichments
    <3>1. code \in Adapters /\ Answers \subseteq Answer
      BY InputsAssumption DEF InputsOK
    <3> QED BY <3>1, EnrichmentType
  <2>3. answered' \in Seq(Enrichments)
    <3>1. answered' = answered \/ \E e \in Enrichments : answered' = Append(answered, e)
      BY <2>1, <2>2, Zenon
    <3> QED BY <3>1 DEF InputsOK
  <2> QED BY <1>3, <2>1, <2>3 DEF enrichViaProvider, InputsOK
<1>4. CASE MergeAnswers
  <2>1. IsPerson(person')
    BY <1>0, <1>4, MergeIsPerson DEF MergeAnswers, InputsOK
  <2> QED BY <1>4, <2>1 DEF MergeAnswers, InputsOK
<1>5. CASE verifyIdentity
  <2>1. IsPerson(person')
    BY <1>5, AttachIsPerson DEF verifyIdentity, InputsOK
  <2> QED BY <1>5, <2>1 DEF verifyIdentity, InputsOK
<1>6. CASE buildCompliance
  <2>1. callable' \in BOOLEAN
    BY <1>6 DEF buildCompliance
  <2> QED BY <1>6, <2>1 DEF buildCompliance, InputsOK
<1>7. CASE compute \/ Abort
  <2>1. Over /\ weights' = weights
    BY <1>7 DEF compute, Abort
  <2>2. IsPerson(person)'
    BY <1>0, <2>1 DEF Over
  <2>3. weights' \in [Keys -> Nat] /\ callable' \in BOOLEAN
    BY <2>1 DEF Over, InputsOK
  <2>4. answered' \in Seq(Enrichments)
    <3>1. \A S : <<>> \in Seq(S)
      OBVIOUS
    <3> QED BY <2>1, <3>1, Zenon DEF Over
  <2>5. active' \subseteq Adapters /\ todo' \subseteq active'
    BY <2>1 DEF Over
  <2> QED BY <2>2, <2>3, <2>4, <2>5, Zenon DEF InputsOK, IsPerson
<1>8. CASE searchPerson
  <2>1. active' \subseteq Adapters
    BY <1>8, InputsAssumption DEF searchPerson
  <2> QED BY <1>8, <2>1 DEF searchPerson, InputsOK
<1>9. CASE AskToSearch \/ ShowMatches
  BY <1>9 DEF AskToSearch, ShowMatches, InputsOK
<1> QED BY <1>1, <1>2, <1>3, <1>4, <1>5, <1>6, <1>7, <1>8, <1>9 DEF Next

-----------------------------------------------------------------------------
(* The stored score                                                        *)

\* Half a score and half a share are a natural number of hundredths.
LEMMA BlendType ==
  ASSUME NEW score \in 0..100, NEW h \in Histories
  PROVE  Blend(score, h) \in Nat
<1>1. h.won \in Nat /\ h.closed \in Nat
  BY InputsAssumption
<1>2. CASE h.closed >= 10
  <2> PICK num \in Nat : num = 100 * h.won + score * h.closed
    <3>1. score * h.closed \in Nat
      BY <1>1
    <3> QED BY <1>1, <3>1
  <2> PICK den \in Nat \ {0} : den = 2 * h.closed
    BY <1>1, <1>2
  <2>1. Round(num, den) \in Nat
    <3>1. 2 * num + den \in Nat /\ 2 * den \in Nat \ {0}
      OBVIOUS
    <3>2. \A n \in Nat, d \in Nat \ {0} : n \div d \in Nat
      OBVIOUS
    <3> QED BY <3>1, <3>2 DEF Round
  <2> QED BY <1>2, <2>1 DEF Blend
<1>3. CASE ~(h.closed >= 10)
  <2>1. 15 + score \in Nat
    OBVIOUS
  <2> QED BY <1>3, <2>1, RoundType DEF Blend
<1> QED BY <1>2, <1>3

\* What compute stores is balanced, and a percentage.
LEMMA ComputeStep ==
  ASSUME InputsOK, compute
  PROVE  /\ ScoreIsItemized'
         /\ dossier'.score \in 0..100 /\ dossier'.conversion \in 0..95
<1> PICK tally : tally = Tally(person, geo(lead), callable, weights)
  OBVIOUS
<1>0. PICK h \in Histories :
        dossier' = [status |-> IF failures THEN "PARTIAL" ELSE "COMPLETE",
                    person |-> person, callable |-> callable,
                    score |-> Clamped(tally.score), items |-> tally.items,
                    conversion |-> Conversion(Clamped(tally.score), callable, h)]
  BY DEF compute
<1>1. Balanced(tally) /\ tally.score >= 0
  BY TallyBalances DEF InputsOK, IsPerson
<1>2. dossier' = [status |-> IF failures THEN "PARTIAL" ELSE "COMPLETE",
                  person |-> person, callable |-> callable,
                  score |-> Clamped(tally.score), items |-> tally.items,
                  conversion |-> Conversion(Clamped(tally.score), callable, h)]
  BY <1>0
<1>3. /\ Clamped(tally.score) = IF tally.score > 100 THEN 100 ELSE tally.score
      /\ Clamped(tally.score) \in 0..100
  BY <1>1 DEF Clamped, Between, AtMost, Balanced
<1>4. /\ Conversion(Clamped(tally.score), callable, h) \in 0..95
      /\ ~callable => Conversion(Clamped(tally.score), callable, h) = 0
  <2>1. Blend(Clamped(tally.score), h) \in Nat
    BY <1>3, BlendType
  <2> QED BY <2>1 DEF Conversion, AtMost
<1>5. ScoreIsItemized'
  BY <1>1, <1>2, <1>3, <1>4 DEF ScoreIsItemized, Balanced, ItemSum
<1> QED BY <1>2, <1>3, <1>4, <1>5

\* The score of every dossier stays accounted for.
LEMMA ScoredStep == ScoredOK /\ [Next]_vars => ScoredOK'
<1> SUFFICES ASSUME ScoredOK, [Next]_vars PROVE ScoredOK'
  OBVIOUS
<1>1. CASE compute
  <2>1. InputsOK'
    BY <1>1, InputsStep DEF ScoredOK, Next
  <2> QED BY <1>1, <2>1, ComputeStep DEF ScoredOK
<1>2. ASSUME dossier' = NoDossier
      PROVE  ScoreIsItemized' /\ dossier'.score \in 0..100 /\ dossier'.conversion \in 0..95
  BY <1>2 DEF ScoreIsItemized, ItemSum, NoDossier, NoItems, ItemKeys, Keys
<1>3. ASSUME dossier' = dossier
      PROVE  ScoreIsItemized' /\ dossier'.score \in 0..100 /\ dossier'.conversion \in 0..95
  BY <1>3 DEF ScoredOK, ScoreIsItemized, ItemSum
<1>4. CASE enrich \/ searchPerson
  <2>1. InputsOK' /\ dossier' = NoDossier
    BY <1>4, InputsStep DEF ScoredOK, Next, enrich, searchPerson
  <2> QED BY <1>2, <2>1 DEF ScoredOK
<1>5. CASE \/ updateWeight \/ enrichViaProvider \/ MergeAnswers \/ verifyIdentity
           \/ buildCompliance \/ Abort \/ AskToSearch \/ ShowMatches
  <2>1. InputsOK' /\ dossier' = dossier
    BY <1>5, InputsStep DEF ScoredOK, Next, updateWeight, enrichViaProvider, MergeAnswers,
       verifyIdentity, buildCompliance, Abort, AskToSearch, ShowMatches
  <2> QED BY <1>3, <2>1 DEF ScoredOK
<1>6. CASE UNCHANGED vars
  <2>1. InputsOK' /\ dossier' = dossier
    BY <1>6 DEF ScoredOK, InputsOK, IsPerson, vars
  <2> QED BY <1>3, <2>1 DEF ScoredOK
<1> QED BY <1>1, <1>4, <1>5, <1>6 DEF Next

-----------------------------------------------------------------------------
(* The rest of the invariant                                               *)

\* The dossier is of a person: only compute writes one, and it is the merged one.
LEMMA DossierStep ==
  ASSUME InputsOK, DossierOK, [Next]_vars
  PROVE  DossierOK'
<1>1. CASE compute
  <2>1. dossier'.person = person /\ dossier'.status \in {"NONE", "PARTIAL", "COMPLETE"}
    BY <1>1 DEF compute
  <2>2. IsPerson(person)
    BY DEF InputsOK
  <2> QED BY <2>1, <2>2 DEF DossierOK
<1>2. CASE enrich \/ searchPerson
  <2>1. dossier' = NoDossier
    BY <1>2 DEF enrich, searchPerson
  <2>2. NoDossier.person = NoPerson /\ NoDossier.status = "NONE"
    BY DEF NoDossier
  <2> QED BY <2>1, <2>2, NobodyIsPerson DEF DossierOK
<1>3. CASE \/ updateWeight \/ enrichViaProvider \/ MergeAnswers \/ verifyIdentity
           \/ buildCompliance \/ Abort \/ AskToSearch \/ ShowMatches \/ UNCHANGED vars
  <2>1. dossier' = dossier
    BY <1>3 DEF updateWeight, enrichViaProvider, MergeAnswers, verifyIdentity,
       buildCompliance, Abort, AskToSearch, ShowMatches, vars
  <2> QED BY <2>1 DEF DossierOK
<1> QED BY <1>1, <1>2, <1>3 DEF Next

\* A search collects what the adapters find, and shows the merge of it.
LEMMA SearchStep ==
  ASSUME InputsOK, SearchOK, [Next]_vars
  PROVE  SearchOK'
<1>0. <<>> \in Seq(FoundMatch)
  OBVIOUS
<1>1. CASE updateWeight \/ enrich \/ enrichViaProvider \/ MergeAnswers \/ verifyIdentity \/ buildCompliance
  <2>1. query' = query /\ collected' = collected /\ shown' = shown /\ pc # "shown" /\ pc' # "shown"
    BY <1>1 DEF updateWeight, enrich, enrichViaProvider, MergeAnswers, verifyIdentity, buildCompliance
  <2> QED BY <2>1 DEF SearchOK
<1>2. CASE compute \/ Abort
  <2>1. query' = "PHONE" /\ collected' = <<>> /\ shown' = <<>> /\ pc' = "idle"
    BY <1>2 DEF compute, Abort, Over
  <2> QED BY <1>0, <2>1 DEF SearchOK, Queries
<1>3. CASE searchPerson
  <2>1. query' \in Queries /\ collected' = collected /\ shown' = shown /\ pc # "shown" /\ pc' # "shown"
    BY <1>3 DEF searchPerson
  <2> QED BY <2>1 DEF SearchOK
<1>4. CASE AskToSearch
  <2>1. query' = query /\ shown' = shown /\ pc # "shown" /\ pc' # "shown"
    BY <1>4 DEF AskToSearch
  <2>2. collected' \in Seq(FoundMatch)
    <3>1. PICK code \in todo : \/ \E crowd \in Crowds : collected' = collected \o Matches(code, crowd, query)
                               \/ UNCHANGED collected
      BY <1>4 DEF AskToSearch
    <3>2. CASE UNCHANGED collected
      BY <3>2 DEF SearchOK
    <3>3. CASE \E crowd \in Crowds : collected' = collected \o Matches(code, crowd, query)
      <4>1. PICK crowd \in Crowds : collected' = collected \o Matches(code, crowd, query)
        BY <3>3
      <4>2. code \in Adapters /\ crowd \in Seq(Answer) /\ query \in Queries
        BY InputsAssumption DEF InputsOK, SearchOK
      <4>3. Matches(code, crowd, query) \in Seq(FoundMatch)
        BY <4>2, MatchesType
      <4>4. collected \in Seq(FoundMatch)
        BY DEF SearchOK
      <4> QED BY <4>1, <4>3, <4>4, ConcatProperties
    <3> QED BY <3>1, <3>2, <3>3
  <2> QED BY <2>1, <2>2 DEF SearchOK
<1>5. CASE ShowMatches
  <2>1. query' = query /\ collected' = collected /\ shown' = mergeMatches(collected) /\ pc' = "shown"
    BY <1>5 DEF ShowMatches
  <2>2. mergeMatches(collected') = mergeMatches(collected)
    BY <2>1, Zenon
  <2> QED BY <2>1, <2>2 DEF SearchOK
<1>6. CASE UNCHANGED vars
  <2>1. query' = query /\ collected' = collected /\ shown' = shown /\ pc' = pc
    BY <1>6 DEF vars
  <2>2. mergeMatches(collected') = mergeMatches(collected)
    BY <2>1, Zenon
  <2> QED BY <2>1, <2>2 DEF SearchOK
<1> QED BY <1>1, <1>2, <1>3, <1>4, <1>5, <1>6 DEF Next

\* The lead and the section are what they can be.
LEMMA StageStep ==
  ASSUME DossierInv, [Next]_vars
  PROVE  /\ pc' \in {"idle", "asking", "verifying", "complying", "scoring", "searching", "shown"}
         /\ lead' \in Lead
<1>1. CASE compute \/ Abort
  <2>1. pc' = "idle" /\ lead' = BlankLead
    BY <1>1 DEF compute, Abort, Over
  <2>2. BlankLead \in Lead
    BY DEF Lead, BlankLead
  <2> QED BY <2>1, <2>2
<1>2. CASE enrich
  <2>1. pc' = "asking" /\ lead' \in Leads
    BY <1>2 DEF enrich
  <2> QED BY <2>1, InputsAssumption
<1>3. CASE \/ updateWeight \/ enrichViaProvider \/ MergeAnswers \/ verifyIdentity \/ buildCompliance
           \/ searchPerson \/ AskToSearch \/ ShowMatches \/ UNCHANGED vars
  BY <1>3 DEF DossierInv, updateWeight, enrichViaProvider, MergeAnswers, verifyIdentity,
     buildCompliance, searchPerson, AskToSearch, ShowMatches, vars
<1> QED BY <1>1, <1>2, <1>3 DEF Next

\* The invariant holds in every state.
THEOREM InvariantAlways == Spec => []DossierInv
<1>1. Init => DossierInv
  <2> SUFFICES ASSUME Init PROVE DossierInv
    OBVIOUS
  <2>1. ScoredOK
    <3>1. weights \in [Keys -> Nat]
      BY DEF Init, SeedWeights, Keys
    <3>2. IsPerson(person)
      BY NobodyIsPerson DEF Init
    <3>3. ScoreIsItemized /\ dossier.score \in 0..100 /\ dossier.conversion \in 0..95
      BY DEF Init, ScoreIsItemized, ItemSum, NoDossier, NoItems, ItemKeys, Keys
    <3>4. answered \in Seq(Enrichments)
      <4>1. \A S : <<>> \in Seq(S)
        OBVIOUS
      <4> QED BY <4>1, Zenon DEF Init
    <3>5. active \subseteq Adapters /\ todo \subseteq active /\ callable \in BOOLEAN
      BY DEF Init
    <3> QED BY <3>1, <3>2, <3>3, <3>4, <3>5, Zenon DEF ScoredOK, InputsOK
  <2>2. DossierOK
    <3>1. dossier.person = NoPerson /\ dossier.status = "NONE"
      BY DEF Init, NoDossier
    <3> QED BY <3>1, NobodyIsPerson DEF DossierOK
  <2>3. SearchOK
    <3>1. <<>> \in Seq(FoundMatch)
      OBVIOUS
    <3>2. query = "PHONE" /\ collected = <<>> /\ shown = <<>> /\ pc = "idle"
      BY DEF Init
    <3> QED BY <3>1, <3>2 DEF SearchOK, Queries
  <2>4. pc = "idle" /\ lead \in Lead
    BY DEF Init, Lead, BlankLead
  <2> QED BY <2>1, <2>2, <2>3, <2>4 DEF DossierInv
<1>2. DossierInv /\ [Next]_vars => DossierInv'
  <2> SUFFICES ASSUME DossierInv, [Next]_vars PROVE DossierInv'
    OBVIOUS
  <2>1. InputsOK /\ ScoredOK /\ DossierOK /\ SearchOK
    BY DEF DossierInv, ScoredOK
  <2>2. ScoredOK'
    BY <2>1, ScoredStep
  <2>3. DossierOK'
    BY <2>1, DossierStep
  <2>4. SearchOK'
    BY <2>1, SearchStep
  <2> QED BY <2>2, <2>3, <2>4, StageStep DEF DossierInv
<1> QED BY <1>1, <1>2, PTL DEF Spec

-----------------------------------------------------------------------------
(* The properties                                                          *)

\* The merge of what was collected is matches, and none of them lost: NoMatchIsLost, once
\* the merge is shown.
LEMMA ShownKeepsMatches ==
  ASSUME SearchOK
  PROVE  NoMatchIsLost /\ \A i \in DOMAIN shown : shown[i] \in ListedMatch
<1>0. collected \in Seq(FoundMatch)
  BY DEF SearchOK
<1>1. CASE pc = "shown"
  <2>1. shown = mergeMatches(collected)
    BY <1>1 DEF SearchOK
  <2>2. shown \in Seq(ListedMatch)
    BY <1>0, <2>1, ShownMatches
  <2>3. \A i \in DOMAIN collected :
           \/ \E j \in DOMAIN shown : StandsFor(shown[j], collected[i])
           \/ /\ Len(shown) = MaxShown
              /\ \A j \in DOMAIN shown : shown[j].confidence >= AtMost(99, collected[i].confidence)
    BY <1>0, <2>1, ShownMatches
  <2>4. NoMatchIsLost
    BY <2>3 DEF NoMatchIsLost, Offered, StandsFor
  <2>5. \A i \in DOMAIN shown : shown[i] \in ListedMatch
    BY <2>2, ListDomain
  <2> QED BY <2>4, <2>5
<1>2. CASE pc # "shown"
  <2>1. shown = <<>>
    BY <1>2 DEF SearchOK
  <2> QED BY <1>2, <2>1 DEF NoMatchIsLost
<1> QED BY <1>1, <1>2

\* TypeOK: the state keeps its shape; the merged accuracy and the stored score are
\* percentages, a conversion is at most 95 of a hundred, whatever the weights are set to
\* and however many leads were won, and a match shown under a number is at most 99 sure,
\* whatever the providers answer.
THEOREM TypesAlways == Spec => []TypeOK
<1>1. DossierInv => TypeOK
  <2> SUFFICES ASSUME DossierInv PROVE TypeOK
    OBVIOUS
  <2>1. InputsOK /\ ScoredOK /\ DossierOK /\ SearchOK
    BY DEF DossierInv, ScoredOK
  <2>2. person.accuracy \in 0..100 /\ person.phones \in Seq(EnrichedPhone)
    BY <2>1 DEF InputsOK, IsPerson
  <2>3. \A i \in DOMAIN person.phones : person.phones[i] \in EnrichedPhone
    BY <2>2, ListDomain
  <2>4. \A i \in DOMAIN shown : /\ shown[i].confidence \in Nat
                                /\ PrimaryOf(shown[i]) # "none" => shown[i].confidence <= 99
    BY <2>1, ShownKeepsMatches, ConfidenceType DEF ListedMatch
  <2>5. /\ pc \in {"idle", "asking", "verifying", "complying", "scoring", "searching", "shown"}
        /\ lead \in Lead
    BY DEF DossierInv
  <2>6. /\ query \in Queries /\ active \subseteq Adapters /\ todo \subseteq active
        /\ weights \in [Keys -> Nat]
    BY <2>1 DEF InputsOK, SearchOK
  <2>7. /\ dossier.score \in 0..100 /\ dossier.conversion \in 0..95
        /\ dossier.status \in {"NONE", "PARTIAL", "COMPLETE"}
    BY <2>1 DEF ScoredOK, DossierOK
  <2> QED BY <2>2, <2>3, <2>4, <2>5, <2>6, <2>7, Zenon DEF TypeOK
<1> QED BY <1>1, InvariantAlways, PTL

\* ScoredPhoneIsLeads: whichever providers answer, with whatever numbers in whatever order,
\* and whichever fail, the phone the score of the dossier is about is the lead's own
\* number, when BatchData is not among the sources.
THEOREM ScoredPhoneIsLeadsAlways == Spec => []ScoredPhoneIsLeads
<1>1. DossierInv => ScoredPhoneIsLeads
  <2> SUFFICES ASSUME DossierInv, "BATCHDATA" \notin ToSet(dossier.person.sources)
               PROVE  \A i \in DOMAIN ScoredPhone(dossier.person.phones) :
                        ScoredPhone(dossier.person.phones)[i].number = Own
    BY DEF ScoredPhoneIsLeads
  <2>1. IsPerson(dossier.person)
    BY DEF DossierInv, DossierOK
  <2> QED BY <2>1, OwnIsScored
<1> QED BY <1>1, InvariantAlways, PTL

\* ScoreIsItemized: the stored score is the sum of its items up to a hundred, the cap of
\* a lead that may not be called included, and the conversion of such a lead is nil --
\* for every answer of every provider and every setting of the weights.
THEOREM ScoreIsItemizedAlways == Spec => []ScoreIsItemized
<1>1. DossierInv => ScoreIsItemized
  BY DEF DossierInv, ScoredOK
<1> QED BY <1>1, InvariantAlways, PTL

\* NoMatchIsLost: whatever people the providers find for a search, in whatever order, every
\* match is still offered under its number, at no less confidence, or the list is full of
\* ones at least as good.
THEOREM NoMatchIsLostAlways == Spec => []NoMatchIsLost
<1>1. DossierInv => NoMatchIsLost
  BY ShownKeepsMatches DEF DossierInv
<1> QED BY <1>1, InvariantAlways, PTL
=============================================================================
