SPECIFICATION Spec
SYMMETRY RequestSymmetry
CONSTANTS
    Loops = {daily, other}
    Default <- MCDefault
    Requests = {r1, r2}
    MaxToggles = 2
    Mailer = daily
    HourLen = 2
    DayHours = 2
    MailHour = 1
    Late = 1
    Work = 1
    MaxDay = 1
    MaxDeploys = 1
    MaxFailures = 1
    MaxManual = 1
INVARIANTS
    SwitchesHold
    OneMailPerDay
    DayIsMailed
