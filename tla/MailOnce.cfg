\* One cron mail and another one, three events of the world and no failure.
SPECIFICATION Spec
CONSTANTS
    Crontabs <- MCCrontabs
    Hashes <- MCHashes
    NormOf <- MCNormOf
    ExeOf <- MCExeOf
    Related <- MCRelated
    Size <- MCSize
    UTC = "UTC"
    None = none
    Runs = {}
    Pids = {}
    Mails = {"m1", "m2"}
    CronMails = {"m1"}
    Paths = {"/var/mail/root"}
    MaxWorld = 3
    Failing = FALSE
INVARIANTS MailReportedOnce
CHECK_DEADLOCK FALSE
