CONSTANTS
  Rosters <- MCRosters
  NumberLists <- MCNumberLists
  Scores <- MCScores
  Answers <- MCAnswers
  Crowds <- MCCrowds
  Leads <- MCLeads
  IdentityScores = {20, 50, 70, 80}
  WeightEdits <- MCWeightEdits
  Histories <- MCHistories
  MaxShown = 2
SPECIFICATION Spec
INVARIANTS TypeOK ScoredPhoneIsLeads ScoreIsItemized NoMatchIsLost
