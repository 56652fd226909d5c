SPECIFICATION Spec
CONSTANTS
    r1 = r1
    r2 = r2
    q1 = q1
    a = a
    b = b
    Reload = {r1, r2}
    Request = {q1}
    Configs <- ThreeConfigs
    Broken = Broken
    MaxLoads = 4
SYMMETRY Symmetry
INVARIANTS
    TypeOK
    CurrentLimiterOpen
    ClientsOwned
    LoadsAgree
    RefusalsNeedReload
