-------------------------- MODULE ProviderAdapters --------------------------
(***************************************************************************)
(* The provider adapters: what each makes of its vendor's answer about a   *)
(* telephone number, as an enrichment of the lead that has the number and  *)
(* as matches of a person search.  Every adapter normalises numbers with   *)
(* libphonenumber; of the answers the model keeps which numbers are        *)
(* listed, in which order, and which parts of a person are there at all.   *)
(* A vendor that answers about one number answers about the one it was     *)
(* asked for.  HTTP failures, time-outs and refused products are failures  *)
(* of the whole call (the failing branches of Dossier's enrichViaProvider  *)
(* and AskToSearch) but where an adapter handles them.  Confidences are in *)
(* hundredths.                                                             *)
(***************************************************************************)
EXTENDS Naturals, SequencesExt

CONSTANTS
  NumberLists,  \* the numbers a vendor lists for one person, in its order
  Scores        \* its own scores: grades and match scores; NoScore is none

Own == "own"      \* the number asked for
Junk == "junk"    \* what libphonenumber refuses
Numbers == {Own, "other"}
NoScore == 0

ASSUME AnswersAssumption ==
  /\ \A numbers \in NumberLists : numbers \in Seq(Numbers \cup {Junk})
  /\ Scores \subseteq Nat

Adapters == {"LEADTRACE_ENGINE", "TWILIO", "MELISSA", "IPQS", "NUMVERIFY", "TRESTLE",
             "BATCHDATA", "ENDATO", "SEARCHBUG", "MOCK"}
LineTypes == {"mobile", "landline", "unknown"}
Deeds == {"own", "rent", "unknown"}
Parts == {"emails", "addresses", "ageRange", "relatives"}

\* One person in a vendor's answer: named or not, with the numbers listed, the line
\* type of those it types, whether the line is said to be good ("UNSAID": it says
\* nothing, or sends no record at all), and whether everything else is there.
Answer == [name: BOOLEAN, numbers: NumberLists, line: LineTypes,
           good: {"YES", "NO", "UNSAID"}, rest: BOOLEAN, deed: Deeds, score: Scores]

EnrichedPhone == [number: Numbers, lineType: LineTypes, active: BOOLEAN, isPrimary: BOOLEAN, verifiedBy: Nat]
Phone(n, line, active, primary) ==
  [number |-> n, lineType |-> line, active |-> active, isPrimary |-> primary, verifiedBy |-> 1]

Person(phones, has, ownership, confidence) ==
  [phones |-> phones, has |-> has, ownership |-> ownership, providerConfidence |-> confidence]

When(c, parts) == IF c THEN parts ELSE {}
AtMost(limit, n) == IF n > limit THEN limit ELSE n
Round(num, den) == (2 * num + den) \div (2 * den)

\* The elements of s at the positions I, a higher key first and equal keys in the order of
\* s: what sort and filter make of an array.
Before(key, j, i) == key[j] > key[i] \/ (key[j] = key[i] /\ j < i)
Arranged(s, I, key) ==
  [k \in 1..Cardinality(I) |-> s[CHOOSE i \in I : Cardinality({j \in I : Before(key, j, i)}) = k - 1]]
StableSort(s, key) == Arranged(s, DOMAIN s, key)
At(s, I) == Arranged(s, I, [i \in I |-> 0])

\* The listed numbers that parse; and a list of phones in which none is repeated.
Parsed(a) == At(a.numbers, {i \in DOMAIN a.numbers : a.numbers[i] # Junk})
AddNew(phones, p) == IF \E i \in DOMAIN phones : phones[i].number = p.number THEN phones ELSE Append(phones, p)
Listed(a, active) == [i \in DOMAIN Parsed(a) |-> Phone(Parsed(a)[i], a.line, active, FALSE)]

\* The number asked for comes first and is the primary one, whatever is listed.
OwnFirst(own, others) == FoldLeft(AddNew, <<own>>, others)

-----------------------------------------------------------------------------
(* Vendors that describe one number                                        *)

Line(a, has, confidence) ==
  Person(<<Phone(Own, a.line, a.good # "NO", TRUE)>>, has, "unknown", confidence)

\* Twilio Lookup: line type and caller name.
TwilioEnrich(a) == Line(a, {}, IF a.name THEN 82 ELSE IF a.good = "YES" THEN 60 ELSE 30)

\* Melissa Global Phone; "UNSAID" is an answer without a record.
MelissaNamed(a) == a.name /\ a.good # "UNSAID"
MelissaEnrich(a) ==
  Line([a EXCEPT !.line = IF a.good = "UNSAID" THEN "unknown" ELSE @],
       When(a.rest /\ a.good # "UNSAID", {"addresses"}),
       IF MelissaNamed(a) THEN 85 ELSE IF a.good # "UNSAID" THEN 60 ELSE 30)

IpqsEnrich(a) ==
  Line(a, When(a.rest, {"addresses"}), IF a.name THEN 75 ELSE IF a.good = "YES" THEN 60 ELSE 30)

NumverifyEnrich(a) == Line(a, {}, IF a.good = "YES" THEN 60 ELSE 30)

(* Vendors that list the numbers of a person                               *)

\* Trestle: phone quality always, an owner when Reverse Phone is unlocked, a grade
\* and a name match (here: `rest`) from Real Contact.  "UNSAID": valid, no activity.
TrestlePhones(a) ==
  OwnFirst(Phone(Own, a.line, a.good = "YES", TRUE), IF a.name THEN Listed(a, TRUE) ELSE <<>>)
TrestleEnrich(a) ==
  LET base == CASE a.name -> 85
                [] ~a.name /\ a.score # NoScore -> AtMost(95, a.score)
                [] ~a.name /\ a.score = NoScore -> IF a.good # "NO" THEN 65 ELSE 30
  IN  Person(TrestlePhones(a), When(a.name /\ a.rest, Parts), "unknown",
             AtMost(98, base + (IF a.rest THEN 5 ELSE 0)))

\* BatchData marks the first number it lists as the primary one, before it drops those
\* that do not parse, and adds the number asked for only when it is not listed.
BatchDataPhones(a) ==
  At([i \in DOMAIN a.numbers |-> Phone(a.numbers[i], a.line, a.good # "NO", i = 1)],
     {i \in DOMAIN a.numbers : a.numbers[i] # Junk})
BatchDataEnrich(a) ==
  LET listed == BatchDataPhones(a)
  IN  Person(IF \E i \in DOMAIN listed : listed[i].number = Own THEN listed
             ELSE <<Phone(Own, "unknown", TRUE, TRUE)>> \o listed,
             When(a.rest, Parts), a.deed,
             IF a.score # NoScore THEN AtMost(100, a.score) ELSE 80)

\* Endato never learns the line type of the number asked for.
\* Faulty: the number asked for comes last.
EndatoPhonesAsListed(a) ==
  LET own == Phone(Own, "unknown", TRUE, FALSE)
      out == FoldLeft(AddNew, <<>>, Append(Listed(a, a.good # "NO"), own))
  IN  [out EXCEPT ![1].isPrimary = TRUE]
EndatoPhones(a) == OwnFirst(Phone(Own, "unknown", TRUE, TRUE), Listed(a, a.good # "NO"))
EndatoEnrich(a) == Person(EndatoPhones(a), When(a.rest, Parts), "unknown", IF a.name THEN 90 ELSE 40)

\* SearchBug keeps its order, with the number asked for as the primary one.
SearchBugPhones(a) ==
  LET out == [i \in DOMAIN FoldLeft(AddNew, <<>>, Listed(a, TRUE)) |->
                LET p == FoldLeft(AddNew, <<>>, Listed(a, TRUE))[i]
                IN  [p EXCEPT !.isPrimary = p.number = Own]]
  IN  IF \E i \in DOMAIN out : out[i].isPrimary THEN out
      ELSE <<Phone(Own, "unknown", TRUE, TRUE)>> \o out
SearchBugEnrich(a) == Person(SearchBugPhones(a), When(a.rest, Parts), "unknown", IF a.name THEN 90 ELSE 40)

(* The free providers                                                      *)

\* LeadTrace Engine: the numbers of the leads with this number or name.  A stored
\* number parses, and the lead itself is among those leads, so it is always "known".
EnginePhones(a) == OwnFirst(Phone(Own, a.line, TRUE, TRUE), Listed(a, TRUE))
EngineEnrich(a) == Person(EnginePhones(a), When(a.rest, {"addresses"}), "unknown", 75)

\* The mock draws its answers from a hash of the number.
MockEnrich(a) ==
  Person(<<Phone(Own, a.line, a.good # "NO", TRUE)>>,
         {"addresses", "ageRange"} \cup When(a.rest, {"emails", "relatives"}), a.deed,
         60 + (a.score % 40))

enrichPerson(code, a) ==
  CASE code = "TWILIO"    -> TwilioEnrich(a)    [] code = "MELISSA"   -> MelissaEnrich(a)
    [] code = "IPQS"      -> IpqsEnrich(a)      [] code = "NUMVERIFY" -> NumverifyEnrich(a)
    [] code = "TRESTLE"   -> TrestleEnrich(a)   [] code = "BATCHDATA" -> BatchDataEnrich(a)
    [] code = "ENDATO"    -> EndatoEnrich(a)    [] code = "SEARCHBUG" -> SearchBugEnrich(a)
    [] code = "MOCK"      -> MockEnrich(a)      [] code = "LEADTRACE_ENGINE" -> EngineEnrich(a)

-----------------------------------------------------------------------------
(* Search: one match for each person of the answer.  A query has a number, *)
(* a last name, both, or a ZIP code alone.                                 *)

Queries == {"PHONE", "NAME", "BOTH", "ZIP"}
HasPhone(q) == q \in {"PHONE", "BOTH"}
HasName(q) == q \in {"NAME", "BOTH"}

Match(code, name, phones, confidence) ==
  [source |-> code, name |-> name, verifiedBy |-> 1, confidence |-> confidence,
   phones |-> [i \in DOMAIN phones |-> [number |-> phones[i].number, isPrimary |-> phones[i].isPrimary]]]

One(code, a, confidence) == <<Match(code, a.name, <<Phone(Own, a.line, TRUE, TRUE)>>, confidence)>>
Each(people, MatchOf(_)) == [i \in DOMAIN people |-> MatchOf(people[i])]

TwilioSearch(people) == LET a == Head(people) IN One("TWILIO", a, IF a.name THEN 78 ELSE 40)
MelissaSearch(people) ==
  LET a == Head(people)
  IN  IF a.good = "UNSAID" THEN <<>> ELSE One("MELISSA", a, IF a.name THEN 80 ELSE 45)
IpqsSearch(people) ==
  LET a == Head(people) IN IF a.good = "NO" THEN <<>> ELSE One("IPQS", a, IF a.name THEN 65 ELSE 40)
TrestleSearch(people) ==
  Each(people, LAMBDA a : Match("TRESTLE", a.name,
                                OwnFirst(Phone(Own, a.line, TRUE, TRUE), Listed(a, TRUE)), 85))
EndatoSearch(people) ==
  Each(people, LAMBDA a : Match("ENDATO", a.name, EndatoPhones(a), IF a.name THEN 88 ELSE 45))
SearchBugSearch(people) ==
  Each(people, LAMBDA a : Match("SEARCHBUG", a.name, SearchBugPhones(a), IF a.name THEN 88 ELSE 45))

\* Match scores up to one are fractions and larger ones percentages already, of whatever
\* size: nothing bounds them here.  Without one, 0.7 of a percentage is rounded.
MatchConfidence(score) ==
  IF score = NoScore THEN 1 ELSE IF score <= 100 THEN score ELSE Round(score, 100)
BatchDataSearch(people) ==
  Each(people, LAMBDA a : Match("BATCHDATA", a.name, BatchDataPhones(a), MatchConfidence(a.score)))

\* The phones of someone in the house's own records: the first one is the primary one.
FirstIsPrimary(a) ==
  LET phones == FoldLeft(AddNew, <<>>, Listed(a, TRUE)) IN [phones EXCEPT ![1].isPrimary = TRUE]

\* The engine's own leads, each under its primary number; and a skeleton of the
\* number asked for when none of them has it.
EngineSearch(people, q) ==
  LET leads == At(people, {i \in DOMAIN people : Parsed(people[i]) # <<>>})
      known == Each(leads, LAMBDA a : Match("LEADTRACE_ENGINE", TRUE, FirstIsPrimary(a), 88))
      seen  == \E i \in DOMAIN leads : Own \in ToSet(leads[i].numbers)
  IN  IF ~HasPhone(q) \/ seen THEN known
      ELSE known \o One("LEADTRACE_ENGINE", [Head(people) EXCEPT !.name = FALSE],
                        IF Head(people).line = "mobile" THEN 45 ELSE 35)

\* The mock's population is matched exactly on the number; a name that differs costs nothing.
MockSearch(people, q) ==
  LET found == At(people, {i \in DOMAIN people : /\ Parsed(people[i]) # <<>>
                                                 /\ HasPhone(q) => Own \in ToSet(people[i].numbers)})
  IN  Each(found, LAMBDA a :
        Match("MOCK", TRUE, FirstIsPrimary(a),
              CASE q = "ZIP" -> 40 [] q = "NAME" -> 15 [] HasPhone(q) -> IF HasName(q) /\ a.name THEN 85 ELSE 70))

\* Reverse lookups answer nothing to a query without a number, BatchData nothing to one
\* without a name, NumVerify nothing at all.
Matches(code, people, q) ==
  CASE people = <<>> -> IF code = "LEADTRACE_ENGINE" /\ HasPhone(q)
                        THEN <<Match(code, FALSE, <<Phone(Own, "unknown", TRUE, TRUE)>>, 35)>> ELSE <<>>
    [] people # <<>> /\ code = "LEADTRACE_ENGINE" -> EngineSearch(people, q)
    [] people # <<>> /\ code = "MOCK" -> MockSearch(people, q)
    [] people # <<>> /\ code = "BATCHDATA" -> IF HasName(q) THEN BatchDataSearch(people) ELSE <<>>
    [] people # <<>> /\ code = "NUMVERIFY" -> <<>>
    [] people # <<>> /\ code \in Adapters \ {"LEADTRACE_ENGINE", "MOCK", "BATCHDATA", "NUMVERIFY"} ->
         IF ~HasPhone(q) THEN <<>>
         ELSE CASE code = "TWILIO"  -> TwilioSearch(people)  [] code = "MELISSA"   -> MelissaSearch(people)
                [] code = "IPQS"    -> IpqsSearch(people)    [] code = "TRESTLE"   -> TrestleSearch(people)
                [] code = "ENDATO"  -> EndatoSearch(people)  [] code = "SEARCHBUG" -> SearchBugSearch(people)
=============================================================================
