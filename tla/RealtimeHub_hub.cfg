SPECIFICATION FairSpec
CONSTANTS
    s1 = s1  s2 = s2  topic = topic  ann = ann
    Session = {s1, s2}
    Topic = {topic, other}
    User = {ann}
    LastId = 1
    TopicOf <- MCTopicOf
    Notified <- MCNotified
    UserOf <- MCUserOf
    Anonymous = Anonymous  Refresh = Refresh
    Ignored <- MCIgnored
INVARIANTS HubConsistent NoLiveGap
PROPERTY AllIsDelivered
CHECK_DEADLOCK FALSE
