SPECIFICATION ScenarioSpec
CONSTANTS
    m1 = m1  m2 = m2  m3 = m3  cust = cust  num = num  t1 = t1
    Incoming = {m1, m2, m3}
    Sender <- FromOne
    Number <- ToOne
    Greets = {m1}
    Tenants = {t1}
    Numbers = {num}
    Customers = {cust}
    Outbound = {o1, o2}
    Workers = {w1, w2}
    Callers = {c1}
    None = none
    MaxBatch = 2
    MaxReports = 2
    MaxCalls = 3
SYMMETRY Symmetric
INVARIANTS
    TypeOK
    WelcomesAreNotRepeated
    ConversationsAreFew
    AnsweredMeansDone
    StatusesAreCurrent
CHECK_DEADLOCK FALSE
