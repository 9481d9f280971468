CONSTANTS
  Thread = {1, 2}
  Plans <- CollidingPlans
SPECIFICATION Spec
INVARIANT Cut
