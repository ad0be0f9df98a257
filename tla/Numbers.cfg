SPECIFICATION Spec
CONSTANTS
    KaratsubaThreshold = 2
    BurnikelZieglerThreshold = 1
    MinExp <- MCMinExp
    Builds <- MCBuilds
    Long <- MCLong
    Short <- MCShort
    Ratios <- MCRatios
    Doubles <- MCDoubles
    Chained <- MCChained
    Radixes = {2, 3, 7, 8, 10, 16}
    Shifts <- MCShifts
    Indices = {0, 5, 6, 7, 8, 15, 16, 24}
PROPERTIES
    ExactlyRight
    BitsRight
    ConversionsRight
CHECK_DEADLOCK FALSE
