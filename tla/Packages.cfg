CONSTANTS
    t1 = t1
    t2 = t2
    alone = alone
    n1 = n1
    n2 = n2
    Tasks = {t1, t2}
    Names = {"a", "b"}
    Sources <- MCSources
    MaxChanges = 3
    MaxFaults = 2
    AsideMayFail = FALSE
    None = None
    Torn = Torn
    RuntimeFaults = 1
    MaxHosts = 3
    Packages = {"p", "q"}
    Explicit = {"x"}
    Order <- MCOrder
    ToolOf <- MCToolOf
    BaseTools = {"read"}
    Calls = {t1, t2, alone}
    ProcessOf <- MCProcessOf
    Providers = {n1, n2}
    MaxSecrets = 2
    MaxMishaps = 1
    Nil = Nil
    MaxMentions = 2
    MaxSaves = 1
    MaxFinds = 3
    MaxLoads = 2
    Broken = Broken
CHECK_DEADLOCK FALSE
SPECIFICATION MCSpec
SYMMETRY MCSymmetry
INVARIANTS PackagesSafe CredentialsSound HostSound 
PROPERTIES RollbackRestores
