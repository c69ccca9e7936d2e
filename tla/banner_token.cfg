SPECIFICATION LiveSpec
CONSTANTS
    secret = secret
    NoToken = NoToken
    Chosen <- MCChosen
    Envs <- MCEnvs
    MaxUps = 2
    MaxReboots = 1
    MaxBoots = 4
    MaxTunnels = 3
PROPERTY LiveTokenIsRight
