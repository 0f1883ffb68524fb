SPECIFICATION CacheSpec
CONSTANTS
  Processes = {a, b}
  Readers = {r1, r2}
  Writers = {w1, w2}
  Deleted <- DeletedVersions
  Unencodable <- NoJsonVersions
  MaxWrites = 3
  Nothing = Nothing
  Placeholder = Placeholder
  Empty = Empty
INVARIANTS AnswerIsRecent
PROPERTIES CacheGetsCurrent
