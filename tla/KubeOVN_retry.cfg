\* One installation, and one write of the Deployment from elsewhere.
CONSTANTS
    v1 = v1  v2 = v2
    Vpcs = {v1}
    Free = Free
    Domains <- NoDomains
    Gates = {1, 2}
    Attachments <- NoSites
    i1 = i1  i2 = i2
    Stock = Stock
    Images = {i1, i2}
    Releases <- WrittenMeanwhile
SPECIFICATION RetrySpec
CHECK_DEADLOCK FALSE
PROPERTY RetriesComplete
