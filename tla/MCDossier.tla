----------------------------- MODULE MCDossier -----------------------------
(* Dossier with a few rosters, answers and leads for TLC.                  *)
EXTENDS Dossier

MCRosters == {{}, {"ENDATO", "TRESTLE"}, {"SEARCHBUG", "TWILIO"}, {"BATCHDATA", "LEADTRACE_ENGINE"},
              {"MELISSA", "IPQS"}, {"NUMVERIFY", "MOCK"},
              {"NUMVERIFY", "TWILIO", "BATCHDATA"}}
MCNumberLists == {<<>>, <<Own>>, <<"other", Own>>, <<Junk, "other">>}
MCScores == {NoScore, 96, 15000}
MCAnswers == {a \in Answer : /\ a.line # "landline" /\ a.deed # "rent"
                             /\ a.deed = "own" => a.rest
                             /\ a.score # NoScore => a.rest
                             /\ a.score \in {NoScore, 96}
                             /\ a.good = "UNSAID" => ~a.rest}
Someone(name, numbers, score) ==
  [name |-> name, numbers |-> numbers, line |-> "mobile", good |-> "YES", rest |-> TRUE,
   deed |-> "own", score |-> score]
MCCrowds == {<<>>, <<Someone(TRUE, <<>>, 96)>>, <<Someone(TRUE, <<>>, 15000), Someone(TRUE, <<"other", Own>>, 15000)>>, <<Someone(FALSE, <<Own>>, NoScore)>>,
             <<Someone(TRUE, <<Own>>, NoScore), Someone(FALSE, <<Junk, "other">>, 96)>>}
MCLeads == {[zip |-> "mapped", state |-> "none", street |-> TRUE, optedOut |-> FALSE],
            [zip |-> "unmapped", state |-> "other", street |-> TRUE, optedOut |-> TRUE]}
MCWeightEdits == {<<"callable", 60>>}
MCHistories == {[won |-> 9, closed |-> 9], [won |-> 10, closed |-> 10]}
=============================================================================
