SPECIFICATION Spec
CONSTANTS
    google = google
    kakao = kakao
    None = None
    Users = {u1, u2}
    Emails = {home, work}
    Identities = {google, kakao}
    Provider <- MCProvider
    Devices = {phone}
    Seconds = {t1, t2}
    Calls = {c1, c2}
INVARIANT WithdrawnIsLoggedOut
