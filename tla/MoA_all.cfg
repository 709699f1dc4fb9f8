CONSTANTS
  m1 = m1
  m2 = m2
  Refs = {m1, m2}
  Strategies = {"single", "parallel", "registered", "compose", "judge", "chain",
                "pipeline", "layered", "single_proposer", "ranker"}
  MaxChain = 2
  MaxRounds = 1
  MaxSteps = 3
  MaxToolRounds = 2
SPECIFICATION FairSpec
INVARIANTS CostIsComplete TrackedMockIsLabelled AnswersAreModelOutput
PROPERTIES DraftSurvives RequestsEnd
