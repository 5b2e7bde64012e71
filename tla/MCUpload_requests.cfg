SPECIFICATION Spec
CONSTANTS
    DefaultVoice = "astra"
    Voices = {"astra", "laimis"}
    OtherVoice = "jonas"
    Speeds <- MCSpeeds
INVARIANTS
    ConsentHonoured
    SentIsStored
    LeftoverIsFound
    SentSpeedIsUsable
