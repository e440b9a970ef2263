\* A deletion in a directory that is written meanwhile; two processes on one database.
SPECIFICATION StoreSpec
CONSTANTS
  t1 = t1  t2 = t2  o1 = o1  o2 = o2  s1 = s1  s2 = s2  s3 = s3
  Text = {t1, t2}
  Source <- Sources
  Modes <- Modes2
  Op = {o1, o2}
  Skill = {s1, s2, s3}
SYMMETRY Symmetry
INVARIANTS RowTruthful
PROPERTIES NoOrphanUnseen
