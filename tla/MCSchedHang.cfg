SPECIFICATION SectionsFairSpec
CONSTANTS
    MaxTasks = 3
    MaxSleep = 0
PROPERTY SectionCompletes
