SPECIFICATION SettlingSpec
CONSTANTS
    google = google
    kakao = kakao
    None = None
    Users = {u1, u2}
    Emails = {home}
    Identities = {google, kakao}
    Provider <- MCProvider
    Devices = {phone}
    Seconds = {t1}
    Calls = {c1, c2}
    reader = reader
    n1 = n1
    n2 = n2
    s1 = s1
    s2 = s2
    r1 = r1
    c1 = c1
PROPERTIES
    WithdrawnIsLeftAlone
    CallsReturn
    OpenStreamsAreConfirmed
    PublishedNoticesArrive
