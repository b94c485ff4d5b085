--------------------------- MODULE MCObservation ---------------------------
(***************************************************************************)
(* Two commands, one of them also written with a redirection, that run the *)
(* same executable; three crontabs of two files; two processes; a cron     *)
(* mail and another one in one spool.                                      *)
(***************************************************************************)
EXTENDS Observation

Job(r, s)  == [kind |-> "job", raw |-> r, sched |-> s]
Zone(z)    == [kind |-> "tz", tz |-> z]
Other(k)   == [kind |-> k]

MCHashes   == {"backup", "report"}
MCNormOf   == [r \in {"backup", "backup >/dev/null", "report"} |->
                  IF r = "report" THEN "report" ELSE "backup"]
MCExeOf    == [h \in MCHashes |-> "/usr/bin/php"]

MCCrontabs ==
    {<< <<Job("backup", "daily"), Zone("Taipei"), Job("backup >/dev/null", "hourly")>>,
        <<Other("comment"), Job("report", "daily")>> >>,
     << <<Zone("Taipei"), Job("backup", "hourly")>>,
        <<Other("at"), Job("backup", "daily"), Other("malformed")>> >>,
     << <<Other("comment")>>, <<Zone("Taipei")>> >>}

MCSize     == [m \in {"m1", "m2"} |-> IF m = "m1" THEN 3 ELSE 4]
MCRelated  == {<<"backup", "m1">>, <<"report", "m2">>}
=============================================================================
