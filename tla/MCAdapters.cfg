SPECIFICATION AdaptersSpec
CONSTANTS
  ann = ann
  bob = bob
  m1 = m1
  m2 = m2
  Gone = Gone
  Nothing = Nothing
  ChannelType <- MCChannelType
  Payloads <- MCPayloads
  Contacts = {ann, bob}
  Ids = {m1, m2, ""}
  Missing = Gone
  NoJob = Nothing
INVARIANTS MessagesOnceInOrder
