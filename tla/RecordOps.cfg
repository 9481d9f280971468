CONSTANTS
  Thread = {1, 2}
  Plans <- MCPlans
SPECIFICATION Spec
INVARIANTS NoUpdateLost AnswersAreTrue CutIsConsistent
PROPERTIES ImmutableStays RequestsComplete
