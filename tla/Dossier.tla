------------------------------- MODULE Dossier -------------------------------
(***************************************************************************)
(* What the enrichment service and the search service make of the          *)
(* providers' answers: the merged person of a lead, its identity check,    *)
(* geography, compliance and score, saved as one dossier; and the merged   *)
(* list of a person search.  One request at a time: spend caps, caches and *)
(* requests that overlap are Lookups'.                                     *)
(*                                                                         *)
(* Bounds: Rosters, Answers, Crowds, Leads, IdentityScores, WeightEdits    *)
(* and Histories are the inputs; weights are edited between requests,      *)
(* since a request reads all of them in one query.                         *)
(***************************************************************************)
EXTENDS Integers, ProviderAdapters

CONSTANTS
  Rosters,         \* sets of providers that may be switched on
  Answers,         \* what a provider may know of the lead
  Crowds,          \* the people it may answer a search with
  Leads,           \* the leads' own facts
  IdentityScores,  \* carrier match scores
  WeightEdits,     \* <<key, weight>> pairs an administrator may set
  Histories,       \* the leads closed so far, and how many of them were won
  MaxShown         \* the matches a search returns: 25 in the code

Keys == {"phone_active_mobile", "has_valid_email", "property_owner", "address_validated",
         "callable", "data_completeness_max", "not_callable_score_cap"}
SeedWeights == [phone_active_mobile |-> 30, has_valid_email |-> 10, property_owner |-> 15,
                address_validated |-> 10, callable |-> 20, data_completeness_max |-> 15,
                not_callable_score_cap |-> 25]

\* A lead: its ZIP code is missing or malformed, in the bundled table, or not in it; its
\* state is missing, the ZIP table's, another one, or none of the United States.
Lead == [zip: {"none", "mapped", "unmapped"}, state: {"none", "zips", "other", "odd"},
         street: BOOLEAN, optedOut: BOOLEAN]
BlankLead == [zip |-> "none", state |-> "none", street |-> FALSE, optedOut |-> FALSE]

ASSUME InputsAssumption ==
  /\ \A roster \in Rosters : roster \subseteq Adapters
  /\ Answers \subseteq Answer
  /\ \A crowd \in Crowds : crowd \in Seq(Answer)
  /\ Leads \subseteq Lead
  /\ IdentityScores \subseteq 0..100
  /\ \A edit \in WeightEdits : edit[1] \in Keys /\ edit[2] \in Nat
  /\ \A h \in Histories : h \in [won: Nat, closed: Nat] /\ h.won <= h.closed
  /\ MaxShown \in Nat \ {0}

Unknown == "unknown"
NoPerson == [phones |-> <<>>, has |-> {}, ownership |-> Unknown, accuracy |-> 0, sources |-> <<>>]

\* The items of the score breakdown, by key; an item that is not there is worth nothing.
ItemKeys == (Keys \ {"data_completeness_max", "not_callable_score_cap"})
              \cup {"data_completeness", "not_callable_cap"}
NoItems == [key \in ItemKeys |-> 0]
NoDossier == [status |-> "NONE", person |-> NoPerson, callable |-> FALSE, score |-> 0,
              items |-> NoItems, conversion |-> 0]

VARIABLES
  pc,         \* idle, then asking, verifying, complying, scoring; or searching, shown
  lead,
  query,
  active,     \* the providers switched on
  todo,       \* those still to be asked
  answered,   \* their enrichments, in the order they were asked
  collected,  \* their matches
  failures,   \* whether anything failed so far
  person,     \* providerData
  callable,   \* complianceData's verdict
  weights,    \* the score_weights table
  dossier,    \* the lead_enrichments row
  shown       \* the matches a search returns

vars == <<pc, lead, query, active, todo, answered, collected, failures, person, callable, weights, dossier, shown>>

Between(lo, hi, n) == IF n < lo THEN lo ELSE AtMost(hi, n)

-----------------------------------------------------------------------------
(* Merging enrichments                                                     *)

\* One phone per number: every further report verifies it and fills it in.
Corroborated(p, q) ==
  [p EXCEPT !.verifiedBy = @ + 1, !.active = @ \/ q.active, !.isPrimary = @ \/ q.isPrimary,
            !.lineType = IF @ = Unknown THEN q.lineType ELSE @]
JoinPhone(phones, q) ==
  IF \A i \in DOMAIN phones : phones[i].number # q.number THEN Append(phones, q)
  ELSE [i \in DOMAIN phones |-> IF phones[i].number = q.number THEN Corroborated(phones[i], q) ELSE phones[i]]
JoinPhones(phones, r) == FoldLeft(JoinPhone, phones, r.data.phones)

\* The primary ones first, and of these and of the others the most often reported first.
MergedPhones(results) ==
  LET phones    == FoldLeft(JoinPhones, <<>>, results)
      byReports == StableSort(phones, [i \in DOMAIN phones |-> phones[i].verifiedBy])
  IN  StableSort(byReports, [i \in DOMAIN byReports |-> IF byReports[i].isPrimary THEN 1 ELSE 0])

\* The first of the most confident answers.
Best(results) ==
  StableSort(results, [i \in DOMAIN results |-> results[i].data.providerConfidence])[1].data

MergedOwnership(results) ==
  LET said == {i \in DOMAIN results : results[i].data.ownership # Unknown}
  IN  IF said = {} THEN Best(results).ownership ELSE results[Min(said)].data.ownership

\* Eight tenths of the average confidence and a bonus for agreement.
AddConfidence(sum, r) == sum + r.data.providerConfidence
MergedAccuracy(results, phones) ==
  LET n     == Len(results)
      total == FoldLeft(AddConfidence, 0, results)
      bonus == AtMost(20, 8 * Cardinality({i \in DOMAIN phones : phones[i].verifiedBy >= 2}) + 5 * (n - 1))
  IN  Between(5, 99, Round(4 * total + 5 * n * bonus, 5 * n))

mergeEnrichments(results) ==
  LET sources == [i \in DOMAIN results |-> results[i].code]
      one     == results[1].data
      phones  == MergedPhones(results)
  IN  IF Len(results) = 1
      THEN [phones |-> one.phones, has |-> one.has, ownership |-> one.ownership,
            accuracy |-> one.providerConfidence, sources |-> sources]
      ELSE [phones |-> phones,
            has |-> (UNION {results[i].data.has : i \in DOMAIN results} \ {"ageRange"})
                      \cup (Best(results).has \cap {"ageRange"}),
            ownership |-> MergedOwnership(results),
            accuracy |-> MergedAccuracy(results, phones), sources |-> sources]

\* A carrier match moves the accuracy; without any provider's data it is the accuracy.
attachVerification(base, match) ==
  IF base = NoPerson THEN [NoPerson EXCEPT !.accuracy = match, !.sources = <<"TWILIO">>]
  ELSE [base EXCEPT !.accuracy =
          Between(5, 99, @ + (IF match >= 80 THEN 8 ELSE IF match >= 70 THEN 4 ELSE IF match <= 20 THEN -12 ELSE 0))]

(* Geography and score                                                     *)

StateFromZip(l) == IF l.zip = "mapped" THEN "zips" ELSE "none"
StateOf(l) == IF StateFromZip(l) # "none" THEN StateFromZip(l) ELSE l.state
geo(l) ==
  [timezone |-> StateOf(l) \in {"zips", "other"},
   addressValid |-> /\ l.street /\ StateOf(l) # "none" /\ l.zip # "none"
                    /\ StateFromZip(l) = IF l.state # "none" THEN l.state ELSE StateFromZip(l)]

\* The phone the score is about: the first primary one, or the first.
ScoredPhone(phones) ==
  LET primary == {i \in DOMAIN phones : phones[i].isPrimary}
  IN  IF phones = <<>> THEN <<>> ELSE <<phones[IF primary # {} THEN Min(primary) ELSE 1]>>

\* Eight fields; the compliance verdict is always there.
Completeness(p, g) ==
  LET present == When(p.phones # <<>>, {"phone"}) \cup p.has \cup When(p.ownership # Unknown, {"property"})
                   \cup When(g.timezone, {"timezone"}) \cup {"compliance"}
  IN  Round(100 * Cardinality(present), 8)

Itemize(tally, key, points) ==
  [score |-> tally.score + points, items |-> [tally.items EXCEPT ![key] = points]]

\* Faulty: the cap is applied and not itemised.
CappedSilently(tally, ok, cap) == IF ~ok /\ tally.score > cap THEN [tally EXCEPT !.score = cap] ELSE tally
Capped(tally, ok, cap) ==
  IF ~ok /\ tally.score > cap THEN Itemize(tally, "not_callable_cap", cap - tally.score) ELSE tally

Earn(tally, holds, key, w) == IF holds THEN Itemize(tally, key, w[key]) ELSE tally

Tally(p, g, ok, w) ==
  LET phone     == ScoredPhone(p.phones)
      start     == [score |-> 0, items |-> NoItems]
      mobile    == Earn(start, phone # <<>> /\ phone[1].active /\ phone[1].lineType = "mobile",
                        "phone_active_mobile", w)
      email     == Earn(mobile, "emails" \in p.has, "has_valid_email", w)
      owner     == Earn(email, p.ownership = "own", "property_owner", w)
      validated == Earn(owner, g.addressValid, "address_validated", w)
      cleared   == Earn(validated, ok, "callable", w)
      complete  == Itemize(cleared, "data_completeness",
                           Round(w.data_completeness_max * Completeness(p, g), 100))
  IN  Capped(complete, ok, w.not_callable_score_cap)

\* Faulty: the sum of the weights is the score, whatever they sum to.
Unclamped(score) == score
Clamped(score) == Between(0, 100, score)

\* Half the score and half the share of closed leads that were won; fifteen per cent
\* until ten are closed.
Blend(score, h) ==
  IF h.closed >= 10 THEN Round(100 * h.won + score * h.closed, 2 * h.closed) ELSE Round(15 + score, 2)
Conversion(score, ok, h) == IF ok THEN AtMost(95, Blend(score, h)) ELSE 0

-----------------------------------------------------------------------------
(* Merging matches                                                         *)

PrimaryOf(m) ==
  LET phone == ScoredPhone(m.phones) IN IF phone = <<>> THEN "none" ELSE phone[1].number

\* Faulty: the later of two matches of one number replaces the earlier one.
KeepLater(cur, m) == [m EXCEPT !.verifiedBy = cur.verifiedBy + 1]
Keep(cur, m) ==
  IF m.confidence > cur.confidence THEN [m EXCEPT !.verifiedBy = cur.verifiedBy + 1]
  ELSE [cur EXCEPT !.verifiedBy = @ + 1]

JoinMatch(merged, m) ==
  IF \A i \in DOMAIN merged : PrimaryOf(merged[i]) # PrimaryOf(m) THEN Append(merged, m)
  ELSE [i \in DOMAIN merged |-> IF PrimaryOf(merged[i]) = PrimaryOf(m) THEN Keep(merged[i], m) ELSE merged[i]]

\* Matches with a number are joined, those without are kept aside.
CollectMatch(merged, m) ==
  IF PrimaryOf(m) = "none" THEN [merged EXCEPT !.noPhone = Append(@, m)]
  ELSE [merged EXCEPT !.byPhone = JoinMatch(@, m)]
Boosted(m) == [m EXCEPT !.confidence = AtMost(99, @ + 8 * (m.verifiedBy - 1))]
mergeMatches(all) ==
  LET merged  == FoldLeft(CollectMatch, [byPhone |-> <<>>, noPhone |-> <<>>], all)
      matches == [i \in DOMAIN merged.byPhone |-> Boosted(merged.byPhone[i])] \o merged.noPhone
      sorted  == StableSort(matches, [i \in DOMAIN matches |-> matches[i].confidence])
  IN  SubSeq(sorted, 1, AtMost(MaxShown, Len(sorted)))

-----------------------------------------------------------------------------
(* Enriching a lead                                                        *)

Init ==
  /\ pc = "idle"
  /\ lead = BlankLead
  /\ query = "PHONE"
  /\ active = {} /\ todo = {}
  /\ answered = <<>> /\ collected = <<>>
  /\ failures = FALSE
  /\ person = NoPerson
  /\ callable = FALSE
  /\ weights = SeedWeights
  /\ dossier = NoDossier
  /\ shown = <<>>

\* An administrator sets one of the weights there are.
updateWeight ==
  /\ pc = "idle"
  /\ \E edit \in WeightEdits : weights' = [weights EXCEPT ![edit[1]] = edit[2]]
  /\ UNCHANGED <<pc, lead, query, active, todo, answered, collected, failures, person, callable, dossier, shown>>

\* The active providers within the user's level are asked in whatever order they are read.
\* The dossier of the lead enriched before is of no further concern, here and in a search.
enrich ==
  /\ pc = "idle"
  /\ lead' \in Leads
  /\ active' \in Rosters
  /\ todo' = active'
  /\ pc' = "asking"
  /\ dossier' = NoDossier
  /\ UNCHANGED <<query, answered, collected, failures, person, callable, weights, shown>>

\* One provider answers, or fails and is skipped.
enrichViaProvider ==
  /\ pc = "asking"
  /\ \E code \in todo :
       /\ todo' = todo \ {code}
       /\ \/ /\ \E a \in Answers : answered' = Append(answered, [code |-> code, data |-> enrichPerson(code, a)])
             /\ UNCHANGED failures
          \/ /\ failures' = TRUE
             /\ UNCHANGED answered
  /\ UNCHANGED <<pc, lead, query, active, collected, person, callable, weights, dossier, shown>>

\* Section A ends: what came is merged, and nothing at all is one more failure.
MergeAnswers ==
  /\ pc = "asking"
  /\ todo = {}
  /\ person' = IF answered = <<>> THEN NoPerson ELSE mergeEnrichments(answered)
  /\ failures' = (failures \/ answered = <<>>)
  /\ answered' = <<>>
  /\ pc' = "verifying"
  /\ UNCHANGED <<lead, query, active, todo, collected, callable, weights, dossier, shown>>

\* Section B: Twilio, when it is switched on, says how well the name fits the number,
\* cannot say, or fails.
verifyIdentity ==
  /\ pc = "verifying"
  /\ pc' = "complying"
  /\ \/ UNCHANGED <<person, failures>>
     \/ /\ "TWILIO" \in active
        /\ \E match \in IdentityScores : person' = attachVerification(person, match)
        /\ UNCHANGED failures
     \/ /\ "TWILIO" \in active
        /\ failures' = TRUE
        /\ UNCHANGED person
  /\ UNCHANGED <<lead, query, active, todo, answered, collected, callable, weights, dossier, shown>>

\* Section D: the in-house list decides; a scrub that fails leaves the lead not callable.
buildCompliance ==
  /\ pc = "complying"
  /\ pc' = "scoring"
  /\ \/ /\ callable' = ~lead.optedOut
        /\ UNCHANGED failures
     \/ /\ callable' = FALSE
        /\ failures' = TRUE
  /\ UNCHANGED <<lead, query, active, todo, answered, collected, person, weights, dossier, shown>>

\* What a request holds while it runs is gone when it ends.
Over ==
  /\ pc' = "idle"
  /\ lead' = BlankLead /\ query' = "PHONE"
  /\ active' = {} /\ todo' = {}
  /\ answered' = <<>> /\ collected' = <<>>
  /\ failures' = FALSE
  /\ person' = NoPerson
  /\ callable' = FALSE
  /\ shown' = <<>>

\* Sections C and E: geography, score, and the one row of the lead.  The closed leads are
\* counted anew for every dossier.
compute ==
  /\ pc = "scoring"
  /\ \E h \in Histories :
       LET tally == Tally(person, geo(lead), callable, weights)
       IN  dossier' = [status |-> IF failures THEN "PARTIAL" ELSE "COMPLETE",
                       person |-> person, callable |-> callable,
                       score |-> Clamped(tally.score), items |-> tally.items,
                       conversion |-> Conversion(Clamped(tally.score), callable, h)]
  /\ Over
  /\ UNCHANGED weights

\* The database fails: the request ends with an error and saves nothing.
Abort ==
  /\ pc # "idle"
  /\ Over
  /\ UNCHANGED <<weights, dossier>>

-----------------------------------------------------------------------------
(* Searching                                                               *)

searchPerson ==
  /\ pc = "idle"
  /\ active' \in Rosters \ {{}}
  /\ todo' = active'
  /\ query' \in Queries
  /\ pc' = "searching"
  /\ dossier' = NoDossier
  /\ UNCHANGED <<lead, answered, collected, failures, person, callable, weights, shown>>

\* A provider's people are collected; one that fails is skipped.
AskToSearch ==
  /\ pc = "searching"
  /\ \E code \in todo :
       /\ todo' = todo \ {code}
       /\ \/ \E crowd \in Crowds : collected' = collected \o Matches(code, crowd, query)
          \/ UNCHANGED collected
  /\ UNCHANGED <<pc, lead, query, active, answered, failures, person, callable, weights, dossier, shown>>

ShowMatches ==
  /\ pc = "searching"
  /\ todo = {}
  /\ shown' = mergeMatches(collected)
  /\ pc' = "shown"
  /\ UNCHANGED <<lead, query, active, todo, answered, collected, failures, person, callable, weights, dossier>>

Next ==
  \/ updateWeight \/ enrich \/ enrichViaProvider \/ MergeAnswers \/ verifyIdentity
  \/ buildCompliance \/ compute \/ Abort \/ searchPerson \/ AskToSearch \/ ShowMatches

Spec == Init /\ [][Next]_vars

-----------------------------------------------------------------------------
(* Properties                                                              *)

\* The state's shape; a stored score is a percentage and a conversion probability at
\* most 95 of a hundred, whatever the weights are set to and however many leads were won;
\* a match shown under a number has a confidence of at most 99, whatever its provider
\* claims.  Nothing bounds what a match without a number claims.
TypeOK ==
  /\ pc \in {"idle", "asking", "verifying", "complying", "scoring", "searching", "shown"}
  /\ lead \in Lead /\ query \in Queries
  /\ active \subseteq Adapters /\ todo \subseteq active
  /\ weights \in [Keys -> Nat]
  /\ person.accuracy \in 0..100
  /\ \A i \in DOMAIN person.phones : person.phones[i] \in EnrichedPhone
  /\ dossier.score \in 0..100 /\ dossier.conversion \in 0..95
  /\ dossier.status \in {"NONE", "PARTIAL", "COMPLETE"}
  /\ \A i \in DOMAIN shown : /\ shown[i].confidence \in Nat
                              /\ PrimaryOf(shown[i]) # "none" => shown[i].confidence <= 99

\* The dossier scores the phone the lead has: however many providers are merged, in
\* whatever order they were read and whichever failed, and with whatever other numbers they
\* list first, "Primary phone is an active mobile" is said of the lead's own number.
\* BatchData is left out: see OwnPhoneIsPrimary.
ScoredPhoneIsLeads ==
  "BATCHDATA" \notin ToSet(dossier.person.sources) =>
    \A i \in DOMAIN ScoredPhone(dossier.person.phones) : ScoredPhone(dossier.person.phones)[i].number = Own

\* The stored score is the sum of its stored items, up to a hundred: the items explain the
\* cap of a lead that may not be called as well, and such a lead's conversion is nil.
ItemSum(items) ==
  items["phone_active_mobile"] + items["has_valid_email"] + items["property_owner"]
    + items["address_validated"] + items["callable"] + items["data_completeness"]
    + items["not_callable_cap"]
ScoreIsItemized ==
  LET total == ItemSum(dossier.items)
  IN  /\ dossier.score = IF total > 100 THEN 100 ELSE total
      /\ dossier.status # "NONE" /\ ~dossier.callable => dossier.conversion = 0

\* Merging by number hides nobody's number: every number a provider led a match with is
\* still offered, at no less confidence than that match had, and so is every match without
\* one; only a full list leaves something out, and then nothing better than what it shows.
Offered(m) ==
  \E j \in DOMAIN shown :
    /\ PrimaryOf(shown[j]) = PrimaryOf(m)
    /\ shown[j].confidence >= AtMost(99, m.confidence)
    /\ PrimaryOf(m) = "none" => shown[j].source = m.source
NoMatchIsLost ==
  pc = "shown" =>
    \A i \in DOMAIN collected :
      \/ Offered(collected[i])
      \/ /\ Len(shown) = MaxShown
         /\ \A j \in DOMAIN shown : shown[j].confidence >= AtMost(99, collected[i].confidence)

\* What batchdata.provider.ts:149 says it ensures: the lead's own phone is present as primary.
OwnPhoneIsPrimary ==
  \A i \in DOMAIN answered :
    answered[i].code = "BATCHDATA" => ScoredPhone(answered[i].data.phones)[1].number = Own
=============================================================================
