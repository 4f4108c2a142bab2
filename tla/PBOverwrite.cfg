SPECIFICATION Spec
CONSTANTS
    app = app
    db = db
    web = web
    Channels = {app, db, web}
    FileOf <- TwoFiles
    MaxVersion = 2
    Bad <- FirstOfDb
    BatchLimit = 2
    MaxChanges = 4
    MaxFaults = 1
PROPERTY NoRollback
