\* Two processes, one PID, a cron mail and another one, four events of the world.
SPECIFICATION FairSpec
CONSTANTS
    Crontabs <- MCCrontabs
    Hashes <- MCHashes
    NormOf <- MCNormOf
    ExeOf <- MCExeOf
    Related <- MCRelated
    Size <- MCSize
    UTC = "UTC"
    None = none
    Runs = {r1, r2}
    Pids = {1}
    Mails = {"m1", "m2"}
    CronMails = {"m1"}
    Paths = {"/var/mail/root"}
    MaxWorld = 4
    Failing = TRUE
INVARIANTS TypeOK StartsAccounted EndMeansGone TrackedUnlessReused
           MailAccounted MailAttributed
PROPERTIES ObservedReported JobsReachServer
