SPECIFICATION FairSpec
CONSTANTS
    Operators = {o1}
    Units = {u1}
    Versions = {1, 2}
    Salts = {s1, s2, s3}
    First = {NoFile, NoLine, s1}
    MaxKills = 2
    NoFile = NoFile
    NoLine = NoLine
    Empty = Empty
    None = None
INVARIANT SchemaIsWhole
INVARIANT SaltIsKept
PROPERTY ServerComesUp
