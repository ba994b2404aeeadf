SPECIFICATION FileSpec
CONSTANTS
  k1 = k1
  k2 = k2
  s1 = s1
  s2 = s2
  TopicPartitions = {0, 1, 2}
  Keys = {k1, k2}
  Schemas = {s1, s2}
  Payloads <- MCPayloads
  Encodes <- MCEncodes
  Json <- MCJson
  Topics <- MCTopics
CHECK_DEADLOCK FALSE
INVARIANT FileProducesThoseEvents
