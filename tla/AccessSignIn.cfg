SPECIFICATION AccessLive
CHECK_DEADLOCK FALSE
CONSTANTS
    Browsers = {b1}
    Requests = {r1}
    Devices = {d1}
    Codes = {c1}
    Challenges = {h1}
    MaxKeys = 1
    MaxEvents = 1
    MaxDevices = 1
PROPERTIES
    SignInAgain
