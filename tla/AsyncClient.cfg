CONSTANTS
  Programs = {"connman", "hostname1", "locale1", "timedate1", "fwupd", "packagekit", "flatpak", "avahi"}
  Technologies = {t1}
  Services = {s1, s2}
  InitialDelay = 1
  MaxDelay = 3
  MaxEvents = 2
SPECIFICATION FairSpec
INVARIANTS TypeOK ThreadsApart PromiseAlive MirrorComplete Retries
PROPERTIES Ends LossNoticed
CHECK_DEADLOCK FALSE
