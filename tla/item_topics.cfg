SPECIFICATION Spec
CONSTANTS
  i1 = i1
  t1 = t1
  t2 = t2
  t3 = t3
  s1 = s1
  s2 = s2
  op = op
  Items = {i1}
  Topics = {t1, t2, t3}
  Sources = {s1, s2}
  Operator = op
  Rules <- MCRules
  Configs <- MCConfigs
INVARIANTS TypeOK NoOrphanLinks
PROPERTIES OperatorLinksStay RefreshLinksItsItems RetagBringsIntoLine
