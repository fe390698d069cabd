\* Two entities; ops of two users that collide on a transaction id, and values
\* whose text sorts above and below `true`.  Entities are interchangeable.
SPECIFICATION Spec
CONSTANTS
  Entity = {e1, e2}
  DataField = {"f"}
  MaxTx = 1
  MaxVal = 2
  MaxUser = 1
  JTrue = 1
  MaxOps = 4
INVARIANTS TypeOK OrderIndependent ReadsLikeOracle CompactionTransparent
PROPERTIES PurgeIsFinal FactsOnlyAdvance
SYMMETRY EntitySymmetry
