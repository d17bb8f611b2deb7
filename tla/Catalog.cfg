SPECIFICATION CatalogSpec
CONSTANTS
  Parts <- BothParts
  Code = {a, b}
  Beat = {t1}
  Conv = {v1}
  Request = {q1, q2}
  MaxVersion = 2
  Scopes <- BothScopes
  Llm = {llm}
  Mcp = {mcp}
  Tool = {tool}
  Skill = {skill}
  Profile = {profile}
  Task = {t2}
  Talk = {v2}
  Handler = {h1, h2}
  Plans <- AllPlans
INVARIANTS CatTypeOK OnePublished DeletedStaysDeleted PublishedAcyclic ReferencesSurvive
  ReferencesResolve EntriesMatchRows KeyIsLastSupplied
CHECK_DEADLOCK FALSE
SYMMETRY CatalogSymmetry
