CONSTANTS
  Units = {"asr", "align"}
  IDLE_EVICT = 1
  KEEPWARM = 1
  WEIGHTS_CHECK = 1
  STALE_AFTER = 1
  FAIL_RELOAD = 1
  FAIL_EXIT = 2
  RELOAD_WITNESSES = 1
  PARTIALS_ENABLED = TRUE
  COLOAD = FALSE
  IdleEvict = {TRUE, FALSE}
  MaxFaults = 2
  Requests = {"unload", "evict", "asr", "align"}
  MaxClients = 1
SPECIFICATION FairSpec
INVARIANTS TypeOK ResidentIsLoaded
PROPERTIES OutageIsTold HealthRecovers ReloadIsNotStarved RotIsHealed IdleModelIsEvicted
