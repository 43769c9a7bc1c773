\* Two writers, retries, every kind of event, an id reused with other content, failing
\* projections, resets and process deaths at every statement of a transaction.
CONSTANTS
  None = None
  NoWriter = NoWriter
  Writers = {w1, w2}
  Events <- CoreEvents
  DemoIds <- DemoOnly
  wsp = wsp
  act = act
  str = str
  runA = runA
  runB = runB
  topic = topic
  link = link
SPECIFICATION FairSpec
INVARIANTS
  OutboxAligned
  ReceiptsDurable
  GraphIsReplay
  ReplicaFollows
PROPERTIES
  PersonalHistoryKept
  NodeOriginStable
  ImplementsEventLog
  TransactionsEnd
