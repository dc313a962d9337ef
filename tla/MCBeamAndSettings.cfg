SPECIFICATION PartsSpec
CONSTANTS
    LOOKBACK_S = 2
    PROFILE_LOOKBACK_S = 1
    COUNTS_S = 2
    BEAM_OFF_GAP_S = 1
    STALE_S = 0
    CATCHUP_PER_POLL = 1
    FileLen = 2
    CycleKinds = {"stray", "unseen"}
    MaxTime = 2
    MaxTroubles = 1
    IS_BEAM_SITE = TRUE
    min_duration = 1
    resend_interval = 1
    UNKNOWN_AFTER = 1
    UNKNOWN_ALERT = 0
    DEBOUNCE_N = 2
    Targets = {"T2", "T4"}
    DEFAULT_TARGET = "T2"
    Channels = {"whatsapp"}
    Browsers = {"b1", "b2"}
    SERVICES <- SERVICESValue
    Dirs = {"d1", "d2"}
    DATA_DIR = "d1"
    MaxVolt = 2
    Volts = {1, 2}
    MaxSaves = 2
    Layouts = {"two", "three"}
    Unset = Unset
INVARIANTS NeverOldOn Recorded NotSilent SafeInForce
CHECK_DEADLOCK FALSE
